---- MODULE Spec2Model ----
(***************************************************************************)
(* Google-Keep-Clone backend: the reminder document (models/Reminder.js),  *)
(* the note document (models/User.js, second model of the file), the user  *)
(* directory (models/User.js), the authorization middleware                *)
(* (middleware/auth, src/unnamed/part_000) and the upload middleware       *)
(* (middleware/upload, src/unnamed/part_001).                              *)
(*                                                                         *)
(* Time.  A JavaScript Date is a number of milliseconds since the Unix     *)
(* epoch; TLC's integers are 32 bits wide, so a reminder's dates are kept  *)
(* in whole MINUTES since the epoch (every date the model draws is on a    *)
(* whole minute, and the code only adds whole minutes, days, months and    *)
(* years to them).  The process runs with TZ = UTC, so local calendar      *)
(* fields are UTC fields.  The rate limiter's clock is in milliseconds,    *)
(* counted from the creation of the limiter.                               *)
(***************************************************************************)
EXTENDS Integers, Sequences, FiniteSets, TLC

VARIABLES
    rem,        \* the reminder document (in memory = as last saved)
    remState,   \* "none" before Reminder.create, "saved" afterwards
    now,        \* the wall clock read by new Date() / Date.now(), in minutes
    edits,      \* how many direct field edits were saved
    \* --- createUserRateLimit
    rlConfig,       \* the closure's windowMs and max; made = FALSE before creation
    userRequests,   \* the closure's Map: user id -> list of request times
    rlNow,          \* Date.now() in milliseconds since the process started
    rlLog,          \* the calls of the middleware so far, with their outcome
    \* --- validateResourceOwnership
    own,            \* the request inside the ownership gate and its outcome
    \* --- authenticateToken and the user directory
    users,          \* the users collection: a set of user documents
    reqs,           \* each request's position in authenticateToken, and its req/res
    authNow,        \* new Date() as the directory reads it
    \* --- the Note model
    note,           \* one note document
    noteNow,        \* new Date() as the note's methods read it
    \* --- the notes collection and Note.findByUser
    noteColl,       \* the notes collection: a sequence of documents (_id = position)
    noteFind,       \* the last findByUser call and what it returned
    \* --- optionalAuth
    opt,            \* its request, position and outcome
    \* --- requireRole
    roleGate,       \* the allowed roles, the request and its outcome
    \* --- the reminder's pre('save') hook, statement by statement
    hook,           \* one run of the hook: input, clock, statements run, result
    \* --- Reminder.findDueForNotification
    due,            \* the last query and its result
    \* --- the upload pipeline
    up,             \* the request, its files and the outcome of each stage
    \* --- Reminder.calculateNextTrigger called on its own
    calc,           \* the last call: the document before and after, and what was returned
    \* --- a request passing through a chain of stages
    pipe,           \* the chain, the request, the outcome of each stage run so far
    \* --- connectDB and its retry timers
    db              \* the attempts, the pending timers, the handlers registered

remVars == <<rem, remState, now, edits>>
rlVars == <<rlConfig, userRequests, rlNow, rlLog>>
ownVars == <<own>>
authVars == <<users, reqs, authNow>>
noteVars == <<note, noteNow>>
collVars == <<noteColl, noteFind>>
optVars == <<opt>>
roleVars == <<roleGate>>
hookVars == <<hook>>
dueVars == <<due>>
upVars == <<up>>
calcVars == <<calc>>
pipeVars == <<pipe>>
dbVars == <<db>>

vars == <<rem, remState, now, edits, rlConfig, userRequests, rlNow, rlLog,
          own, users, reqs, authNow, note, noteNow,
          noteColl, noteFind,
          opt,
          roleGate,
          hook,
          due,
          up,
          calc,
          pipe,
          db>>

\* ------------------------------------------------------------------ bounds

\* the occurrence history is observed up to MaxOcc records
MaxOcc == 3
\* ... and up to MaxOccEdited records where fields are also edited directly
MaxOccEdited == 2
\* at most MaxEdits direct edits of a field are followed
MaxEdits == 1
\* addTag is followed while the tag list is shorter than MaxTags
MaxTags == 3
\* connectDB: a failed attempt is followed while fewer than MaxAttempts were made
MaxAttempts == 4
\* the database changes between reachable and unreachable at most MaxFlips times
MaxFlips == 3

\* an upload request carries at most MaxFiles files
MaxFiles == 2
\* the notes collection holds at most MaxNotes documents
MaxNotes == 2
\* ... and its clock is advanced at most MaxCollTicks times
MaxCollTicks == 1
\* the note's clock is advanced at most MaxNoteTicks times
MaxNoteTicks == 3
\* the directory's clock is advanced at most MaxAuthTicks times
MaxAuthTicks == 2
\* the rate limiter is called at most MaxCalls times
MaxCalls == 5
\* and its clock advanced at most MaxRlTicks times
MaxRlTicks == 3

\* ---------------------------------------------------------------- calendar

\* null / undefined of a Date or Number field (schema defaults "default: null")
Null == -1

MinPerDay == 24 * 60

\* Day number (days since 1970-01-01) of the civil date y-m-d, m in 1..12;
\* d may lie outside the month (the day number just runs on).
DaysFromCivil(y, m, d) ==
    LET yy  == IF m <= 2 THEN y - 1 ELSE y
        era == yy \div 400
        yoe == yy - era * 400
        mp  == IF m > 2 THEN m - 3 ELSE m + 9
        doy == (153 * mp + 2) \div 5 + d - 1
        doe == yoe * 365 + yoe \div 4 - yoe \div 100 + doy
    IN  era * 146097 + doe - 719468

\* The civil date [y, m, d] of a day number, m in 1..12.
CivilFromDays(z) ==
    LET zz  == z + 719468
        era == zz \div 146097
        doe == zz - era * 146097
        yoe == (doe - doe \div 1460 + doe \div 36524 - doe \div 146096) \div 365
        doy == doe - (365 * yoe + yoe \div 4 - yoe \div 100)
        mp  == (5 * doy + 2) \div 153
        d   == doy - (153 * mp + 2) \div 5 + 1
        m   == IF mp < 10 THEN mp + 3 ELSE mp - 9
        y   == yoe + era * 400 + (IF m <= 2 THEN 1 ELSE 0)
    IN  [y |-> y, m |-> m, d |-> d]

\* Date.prototype.getFullYear / getMonth (0-based) / getDate
getFullYear(t) == CivilFromDays(t \div MinPerDay).y
getMonth(t)    == CivilFromDays(t \div MinPerDay).m - 1
getDate(t)     == CivilFromDays(t \div MinPerDay).d

\* ECMAScript MakeDay(year, month, date): month is 0-based and may overflow
\* into the following years, date may overflow into the following months.
MakeDay(year, month, date) ==
    DaysFromCivil(year + month \div 12, (month % 12) + 1, 1) + date - 1

\* ECMAScript MakeDate(day, time)
MakeDate(day, timeInDay) == day * MinPerDay + timeInDay

\* Date.prototype.setDate / setMonth / setFullYear: the other fields are kept
setDate(t, date) ==
    MakeDate(MakeDay(getFullYear(t), getMonth(t), date), t % MinPerDay)
\* a setMonth that stops at the last day of the month asked for
setMonth_Clamped(t, month) ==
    LET first  == MakeDay(getFullYear(t), month, 1)
        length == MakeDay(getFullYear(t), month + 1, 1) - first
        date   == IF getDate(t) > length THEN length ELSE getDate(t)
    IN  MakeDate(first + date - 1, t % MinPerDay)
setMonth(t, month) ==
    MakeDate(MakeDay(getFullYear(t), month, getDate(t)), t % MinPerDay)
setFullYear(t, year) ==
    MakeDate(MakeDay(year, getMonth(t), getDate(t)), t % MinPerDay)

\* new Date(Date.UTC(y, m - 1, d, h, mi)) in minutes
UTC(y, m, d, h, mi) == MakeDate(DaysFromCivil(y, m, d), h * 60 + mi)

\* ------------------------------------------------------- reminder: inputs

PatternTypes == {"daily", "weekly", "monthly", "yearly", "custom"}
Intervals    == {1, 3}
Priorities   == {"low", "medium", "high", "urgent"}
\* tag strings, as sequences of characters
Home         == <<"h", "o", "m", "e">>
Work         == <<"w", "o", "r", "k">>
Tags         == {Home, Work}
\* the tags a client sends: the two above, and one with a space in front
RawTags      == Tags \cup {<<" ">> \o Home}

StartTime == UTC(2024, 1, 1, 9, 0)
\* the reminder times a client sets
DateChoices == {UTC(2024, 1, 1, 10, 0), UTC(2024, 1, 31, 10, 0)}
\* the time a client moves a reminder to
EditDateChoices == {UTC(2024, 2, 15, 10, 0)}
EndDateChoices == {Null, UTC(2024, 1, 2, 0, 0)}
CountChoices == {Null, 1, 2}
\* the instants at which operations run: the start and a day later (after
\* the end date of EndDateChoices and after every snooze has run out)
ClockValues == {StartTime, StartTime + MinPerDay}
\* updatePriority(newPriority): a member of the enum and an outsider
PriorityChoices == {"high", "critical"}
\* snooze(minutes); 10 is the default argument
SnoozeChoices == {10}

Patterns ==
    [type : PatternTypes, interval : Intervals,
     endDate : EndDateChoices, occurrenceCount : CountChoices]

\* ---------------------------------------------------- reminder: the schema

\* new Reminder({reminderDateTime, isRecurring, recurrencePattern}): the
\* schema defaults for every other field; nextTrigger has no default.
NewReminder(rdt, recurring, pattern) ==
    [reminderDateTime  |-> rdt,
     isRecurring       |-> recurring,
     recurrencePattern |-> pattern,
     isCompleted       |-> FALSE,
     completedAt       |-> Null,
     isActive          |-> TRUE,
     isSnoozed         |-> FALSE,
     snoozeUntil       |-> Null,
     notificationSent  |-> FALSE,
     priority          |-> "medium",
     tags              |-> <<>>,
     occurrences       |-> <<>>,
     nextTrigger       |-> Null]

\* ------------------------------------------------- reminder: the methods

\* (mutation of NextTriggerValue: the daily case ignores the interval)
NextTriggerValue_DailyIgnoresInterval(doc) ==
    IF ~doc.isRecurring THEN doc.reminderDateTime
    ELSE LET current == doc.reminderDateTime
             pattern == doc.recurrencePattern
         IN  CASE pattern.type = "weekly" ->
                    setDate(current, getDate(current) + (7 * pattern.interval))
               [] pattern.type = "monthly" ->
                    setMonth(current, getMonth(current) + pattern.interval)
               [] pattern.type = "yearly" ->
                    setFullYear(current, getFullYear(current) + pattern.interval)
               [] OTHER ->
                    setDate(current, getDate(current) + 1)

\* a calculateNextTrigger whose default case adds the interval
NextTriggerValue_DefaultUsesInterval(doc) ==
    IF ~doc.isRecurring THEN doc.reminderDateTime
    ELSE LET current == doc.reminderDateTime
             pattern == doc.recurrencePattern
         IN  CASE pattern.type = "weekly" ->
                    setDate(current, getDate(current) + (7 * pattern.interval))
               [] pattern.type = "monthly" ->
                    setMonth(current, getMonth(current) + pattern.interval)
               [] pattern.type = "yearly" ->
                    setFullYear(current, getFullYear(current) + pattern.interval)
               [] OTHER ->
                    setDate(current, getDate(current) + pattern.interval)

\* calculateNextTrigger: the value assigned to this.nextTrigger
NextTriggerValue(doc) ==
    IF ~doc.isRecurring THEN doc.reminderDateTime
    ELSE LET current == doc.reminderDateTime
             pattern == doc.recurrencePattern
         IN  CASE pattern.type = "daily" ->
                    setDate(current, getDate(current) + pattern.interval)
               [] pattern.type = "weekly" ->
                    setDate(current, getDate(current) + (7 * pattern.interval))
               [] pattern.type = "monthly" ->
                    setMonth(current, getMonth(current) + pattern.interval)
               [] pattern.type = "yearly" ->
                    setFullYear(current, getFullYear(current) + pattern.interval)
               [] OTHER ->
                    setDate(current, getDate(current) + 1)

calculateNextTrigger(doc) ==
    [doc EXCEPT !.nextTrigger = NextTriggerValue(doc)]

\* (mutation of scheduleNextOccurrence: the count test is > instead of >=)
scheduleNextOccurrence_CountOffByOne(doc, t) ==
    IF ~doc.isRecurring THEN doc
    ELSE IF doc.recurrencePattern.endDate # Null
            /\ t > doc.recurrencePattern.endDate
    THEN [doc EXCEPT !.isActive = FALSE]
    ELSE IF doc.recurrencePattern.occurrenceCount # Null
            /\ Len(doc.occurrences) > doc.recurrencePattern.occurrenceCount
    THEN [doc EXCEPT !.isActive = FALSE]
    ELSE LET d == [doc EXCEPT !.nextTrigger = NextTriggerValue(doc)]
         IN  [d EXCEPT !.reminderDateTime = d.nextTrigger,
                       !.isCompleted = FALSE,
                       !.completedAt = Null,
                       !.notificationSent = FALSE]

\* (mutation of scheduleNextOccurrence: the completed flag is not reset)
scheduleNextOccurrence_KeepsCompleted(doc, t) ==
    IF ~doc.isRecurring THEN doc
    ELSE IF doc.recurrencePattern.endDate # Null
            /\ t > doc.recurrencePattern.endDate
    THEN [doc EXCEPT !.isActive = FALSE]
    ELSE IF doc.recurrencePattern.occurrenceCount # Null
            /\ Len(doc.occurrences) >= doc.recurrencePattern.occurrenceCount
    THEN [doc EXCEPT !.isActive = FALSE]
    ELSE LET d == [doc EXCEPT !.nextTrigger = NextTriggerValue(doc)]
         IN  [d EXCEPT !.reminderDateTime = d.nextTrigger,
                       !.notificationSent = FALSE]

\* (mutation of scheduleNextOccurrence: the endDate is not looked at)
scheduleNextOccurrence_IgnoresEndDate(doc, t) ==
    IF ~doc.isRecurring THEN doc
    ELSE IF doc.recurrencePattern.occurrenceCount # Null
            /\ Len(doc.occurrences) >= doc.recurrencePattern.occurrenceCount
    THEN [doc EXCEPT !.isActive = FALSE]
    ELSE LET d == [doc EXCEPT !.nextTrigger = NextTriggerValue(doc)]
         IN  [d EXCEPT !.reminderDateTime = d.nextTrigger,
                       !.isCompleted = FALSE,
                       !.completedAt = Null,
                       !.notificationSent = FALSE]

\* scheduleNextOccurrence, at clock value t
\* (mutation of scheduleNextOccurrence: the count test is = instead of >=)
scheduleNextOccurrence_CountExact(doc, t) ==
    IF ~doc.isRecurring THEN doc
    ELSE IF doc.recurrencePattern.endDate # Null
            /\ t > doc.recurrencePattern.endDate
    THEN [doc EXCEPT !.isActive = FALSE]
    ELSE IF doc.recurrencePattern.occurrenceCount # Null
            /\ Len(doc.occurrences) = doc.recurrencePattern.occurrenceCount
    THEN [doc EXCEPT !.isActive = FALSE]
    ELSE LET d == calculateNextTrigger(doc)
         IN  [d EXCEPT !.reminderDateTime = d.nextTrigger,
                       !.isCompleted = FALSE,
                       !.completedAt = Null,
                       !.notificationSent = FALSE]

scheduleNextOccurrence(doc, t) ==
    IF ~doc.isRecurring THEN doc
    ELSE IF doc.recurrencePattern.endDate # Null
            /\ t > doc.recurrencePattern.endDate
    THEN [doc EXCEPT !.isActive = FALSE]
    ELSE IF doc.recurrencePattern.occurrenceCount # Null
            /\ Len(doc.occurrences) >= doc.recurrencePattern.occurrenceCount
    THEN [doc EXCEPT !.isActive = FALSE]
    ELSE LET d == calculateNextTrigger(doc)
         IN  [d EXCEPT !.reminderDateTime = d.nextTrigger,
                       !.isCompleted = FALSE,
                       !.completedAt = Null,
                       !.notificationSent = FALSE]

\* (mutation of PreSaveTrigger: the non-recurring branch is missing)
PreSaveTrigger_NoPlainBranch(doc) ==
    IF doc.isRecurring /\ doc.isActive /\ ~doc.isCompleted
    THEN [doc EXCEPT !.nextTrigger = NextTriggerValue(doc)]
    ELSE doc

\* (mutation of PreSaveTrigger: recurring reminders keep the trigger they have)
PreSaveTrigger_NoRecurringBranch(doc) ==
    IF ~doc.isRecurring
    THEN [doc EXCEPT !.nextTrigger = doc.reminderDateTime]
    ELSE doc

\* the first statement of the pre-save hook: the nextTrigger recomputation
PreSaveTrigger(doc) ==
    IF doc.isRecurring /\ doc.isActive /\ ~doc.isCompleted
    THEN calculateNextTrigger(doc)
    ELSE IF ~doc.isRecurring
    THEN [doc EXCEPT !.nextTrigger = doc.reminderDateTime]
    ELSE doc

\* (mutation of PreSaveSnooze: an expired snooze is kept)
PreSaveSnooze_Never(doc, t) == doc

\* the second statement of the pre-save hook: the expired snooze
PreSaveSnooze(doc, t) ==
    IF doc.isSnoozed /\ doc.snoozeUntil # Null /\ t > doc.snoozeUntil
    THEN [doc EXCEPT !.isSnoozed = FALSE, !.snoozeUntil = Null]
    ELSE doc

\* reminderSchema.pre('save'), run by every save()
PreSave(doc, t) == PreSaveSnooze(PreSaveTrigger(doc), t)

\* (mutation of markCompleted: a recurring reminder gets no occurrence record)
markCompleted_NoRecord(doc, t) ==
    LET d1 == [doc EXCEPT !.isCompleted = TRUE, !.completedAt = t]
        d2 == IF d1.isRecurring THEN scheduleNextOccurrence(d1, t) ELSE d1
    IN  PreSave(d2, t)

markCompleted(doc, t) ==
    LET d1 == [doc EXCEPT !.isCompleted = TRUE, !.completedAt = t]
        d2 == IF d1.isRecurring
              THEN scheduleNextOccurrence(
                     [d1 EXCEPT !.occurrences =
                        Append(@, [scheduledFor |-> d1.reminderDateTime,
                                   completedAt  |-> d1.completedAt,
                                   wasSkipped   |-> FALSE])], t)
              ELSE d1
    IN  PreSave(d2, t)

snooze(doc, snoozeMinutes, t) ==
    PreSave([doc EXCEPT !.isSnoozed = TRUE,
                        !.snoozeUntil = t + snoozeMinutes], t)

\* a dismiss that records the skipped occurrence without the skipped flag
dismiss_NotFlagged(doc, t) ==
    LET d == IF doc.isRecurring
             THEN scheduleNextOccurrence(
                    [doc EXCEPT !.occurrences =
                       Append(@, [scheduledFor |-> doc.reminderDateTime,
                                  completedAt  |-> Null,
                                  wasSkipped   |-> FALSE])], t)
             ELSE [doc EXCEPT !.isActive = FALSE]
    IN  PreSave(d, t)

dismiss(doc, t) ==
    LET d == IF doc.isRecurring
             THEN scheduleNextOccurrence(
                    [doc EXCEPT !.occurrences =
                       Append(@, [scheduledFor |-> doc.reminderDateTime,
                                  completedAt  |-> Null,
                                  wasSkipped   |-> TRUE])], t)
             ELSE [doc EXCEPT !.isActive = FALSE]
    IN  PreSave(d, t)

\* updatePriority throws for a value outside the enum: nothing is assigned
\* and save() is not reached
updatePriorityThrows(newPriority) == newPriority \notin Priorities

updatePriority(doc, newPriority, t) ==
    IF newPriority \in Priorities
    THEN PreSave([doc EXCEPT !.priority = newPriority], t)
    ELSE doc

\* Array.prototype.includes
includes(seq, x) == \E i \in 1..Len(seq) : seq[i] = x

\* String.prototype.trim, the setter that trim: true puts on every tag
trim(str) ==
    LET kept == {i \in 1..Len(str) : str[i] # " "}
    IN  IF kept = {} THEN <<>>
        ELSE SubSeq(str, CHOOSE i \in kept : \A j \in kept : i <= j,
                         CHOOSE i \in kept : \A j \in kept : i >= j)

\* (mutation of addTag: the tag is pushed whether it is there or not)
addTag_Always(doc, tag, t) ==
    PreSave([doc EXCEPT !.tags = Append(@, trim(tag))], t)

\* tags.push(tag) casts the element, which runs the trim setter
addTag(doc, tag, t) ==
    IF ~includes(doc.tags, tag)
    THEN PreSave([doc EXCEPT !.tags = Append(@, trim(tag))], t)
    ELSE doc

\* Array.prototype.filter(t => t !== tag)
filterOut(seq, tag) == SelectSeq(seq, LAMBDA x : x # tag)

removeTag(doc, tag, t) ==
    PreSave([doc EXCEPT !.tags = filterOut(@, tag)], t)

\* ------------------------------------------------- reminder: the actions

\* Reminder.create({...}): construction and the first save
Create ==
    /\ remState = "none"
    /\ \E rdt \in DateChoices, recurring \in BOOLEAN, pattern \in Patterns :
          rem' = PreSave(NewReminder(rdt, recurring, pattern), now)
    /\ remState' = "saved"
    /\ UNCHANGED <<now, edits>>
    /\ UNCHANGED <<rlVars, ownVars, authVars, noteVars, collVars, optVars, roleVars, hookVars, dueVars, upVars, calcVars, pipeVars, dbVars>>

MarkCompleted(maxOcc) ==
    /\ remState = "saved"
    /\ Len(rem.occurrences) < maxOcc
    /\ rem' = markCompleted(rem, now)
    /\ UNCHANGED <<remState, now, edits>>
    /\ UNCHANGED <<rlVars, ownVars, authVars, noteVars, collVars, optVars, roleVars, hookVars, dueVars, upVars, calcVars, pipeVars, dbVars>>

Snooze ==
    /\ remState = "saved"
    /\ \E m \in SnoozeChoices : rem' = snooze(rem, m, now)
    /\ UNCHANGED <<remState, now, edits>>
    /\ UNCHANGED <<rlVars, ownVars, authVars, noteVars, collVars, optVars, roleVars, hookVars, dueVars, upVars, calcVars, pipeVars, dbVars>>

Dismiss(maxOcc) ==
    /\ remState = "saved"
    /\ Len(rem.occurrences) < maxOcc
    /\ rem' = dismiss(rem, now)
    /\ UNCHANGED <<remState, now, edits>>
    /\ UNCHANGED <<rlVars, ownVars, authVars, noteVars, collVars, optVars, roleVars, hookVars, dueVars, upVars, calcVars, pipeVars, dbVars>>

UpdatePriority ==
    /\ remState = "saved"
    /\ \E p \in PriorityChoices :
          rem' = updatePriority(rem, p, now)
    /\ UNCHANGED <<remState, now, edits>>
    /\ UNCHANGED <<rlVars, ownVars, authVars, noteVars, collVars, optVars, roleVars, hookVars, dueVars, upVars, calcVars, pipeVars, dbVars>>

AddTag(tagSet) ==
    /\ remState = "saved"
    /\ Len(rem.tags) < MaxTags
    /\ \E tag \in tagSet : rem' = addTag(rem, tag, now)
    /\ UNCHANGED <<remState, now, edits>>
    /\ UNCHANGED <<rlVars, ownVars, authVars, noteVars, collVars, optVars, roleVars, hookVars, dueVars, upVars, calcVars, pipeVars, dbVars>>

RemoveTag(tagSet) ==
    /\ remState = "saved"
    /\ \E tag \in tagSet : rem' = removeTag(rem, tag, now)
    /\ UNCHANGED <<remState, now, edits>>
    /\ UNCHANGED <<rlVars, ownVars, authVars, noteVars, collVars, optVars, roleVars, hookVars, dueVars, upVars, calcVars, pipeVars, dbVars>>

\* a direct edit: reminder.reminderDateTime = d; reminder.save()
EditDateTime ==
    /\ remState = "saved"
    /\ edits < MaxEdits
    /\ \E d \in EditDateChoices :
          rem' = PreSave([rem EXCEPT !.reminderDateTime = d], now)
    /\ edits' = edits + 1
    /\ UNCHANGED <<remState, now>>
    /\ UNCHANGED <<rlVars, ownVars, authVars, noteVars, collVars, optVars, roleVars, hookVars, dueVars, upVars, calcVars, pipeVars, dbVars>>

\* a direct edit: reminder.isRecurring = b; reminder.save()
EditRecurring ==
    /\ remState = "saved"
    /\ edits < MaxEdits
    /\ \E b \in BOOLEAN :
          rem' = PreSave([rem EXCEPT !.isRecurring = b], now)
    /\ edits' = edits + 1
    /\ UNCHANGED <<remState, now>>
    /\ UNCHANGED <<rlVars, ownVars, authVars, noteVars, collVars, optVars, roleVars, hookVars, dueVars, upVars, calcVars, pipeVars, dbVars>>

\* time passes between two operations
Tick ==
    /\ \E t \in ClockValues : t > now /\ now' = t
    /\ UNCHANGED <<rem, remState, edits>>
    /\ UNCHANGED <<rlVars, ownVars, authVars, noteVars, collVars, optVars, roleVars, hookVars, dueVars, upVars, calcVars, pipeVars, dbVars>>

\* ------------------------------------------- Reminder.findDueForNotification

NoDueQuery == [asked |-> FALSE, at |-> StartTime, result |-> {}]

\* the reminders collection: the one document, once created (its _id is 1)
ReminderIds == IF remState = "saved" THEN {1} ELSE {}

\* (mutation of DueForNotification: the snooze is not looked at)
DueForNotification_IgnoresSnooze(doc, t) ==
    /\ doc.isActive
    /\ ~doc.isCompleted
    /\ ~doc.notificationSent
    /\ doc.reminderDateTime <= t

\* the filter of findDueForNotification, with now = t; a null snoozeUntil
\* does not match $lte
DueForNotification(doc, t) ==
    /\ doc.isActive = TRUE
    /\ doc.isCompleted = FALSE
    /\ doc.notificationSent = FALSE
    /\ doc.reminderDateTime <= t
    /\ \/ doc.isSnoozed = FALSE
       \/ doc.snoozeUntil # Null /\ doc.snoozeUntil <= t

\* Reminder.findDueForNotification()
FindDueForNotification ==
    /\ due' = [asked |-> TRUE, at |-> now,
               result |-> {id \in ReminderIds : DueForNotification(rem, now)}]
    /\ UNCHANGED remVars
    /\ UNCHANGED <<rlVars, ownVars, authVars, noteVars, collVars, optVars, roleVars, hookVars, upVars, calcVars, pipeVars, dbVars>>

\* the notification of a reminder went out: notificationSent = true; save()
MarkNotificationSent ==
    /\ remState = "saved"
    /\ ~rem.notificationSent
    /\ rem' = PreSave([rem EXCEPT !.notificationSent = TRUE], now)
    /\ UNCHANGED <<remState, now, edits>>
    /\ UNCHANGED <<rlVars, ownVars, authVars, noteVars, collVars, optVars, roleVars, hookVars, dueVars, upVars, calcVars, pipeVars, dbVars>>

\* ------------------------------------------- createUserRateLimit (auth)

UserIds == {"idA", "idB"}
\* req.user is undefined on an unauthenticated request
NoUser == "none"
\* createUserRateLimit(windowMs, max) as the routes configure it
RlConfigs == {[windowMs |-> 1000, max |-> 3], [windowMs |-> 1000, max |-> 1],
              [windowMs |-> 1500, max |-> 2], [windowMs |-> 1000, max |-> 0]}
\* the clock advances in steps of half a second
RlStep == 500
\* Math.ceil((undefined + windowMs - now) / 1000) is NaN
NaN == -1000000

\* Math.ceil(x / 1000)
CeilDiv1000(x) == -((-x) \div 1000)

\* userRequests.get(userId) || []
RequestTimesOf(map, userId) ==
    IF userId \in DOMAIN map THEN map[userId] ELSE <<>>

\* (mutation of RecentRequests: old entries are never dropped)
RecentRequests_KeepsAll(times, windowStart) == times

\* userRequestTimes.filter(time => time > windowStart)
RecentRequests(times, windowStart) ==
    SelectSeq(times, LAMBDA time : time > windowStart)

\* (mutation of RateExceeded: > instead of >=)
RateExceeded_OffByOne(recentRequests, max) == Len(recentRequests) > max

\* recentRequests.length >= max
RateExceeded(recentRequests, max) == Len(recentRequests) >= max

\* the retryAfter of the 429 body
RetryAfter(recentRequests, windowMs, t) ==
    IF recentRequests = <<>> THEN NaN
    ELSE CeilDiv1000(recentRequests[1] + windowMs - t)

\* (mutation of MapSet: one list for every user)
MapSet_Shared(map, key, value) ==
    [k \in DOMAIN map \cup {key} |-> value]

\* userRequests.set(userId, recentRequests)
MapSet(map, key, value) ==
    [k \in DOMAIN map \cup {key} |-> IF k = key THEN value ELSE map[k]]

\* const limiter = createUserRateLimit(windowMs, max, message)
CreateUserRateLimit ==
    /\ ~rlConfig.made
    /\ \E c \in RlConfigs :
          rlConfig' = [made |-> TRUE, windowMs |-> c.windowMs, max |-> c.max]
    /\ userRequests' = <<>>
    /\ UNCHANGED <<rlNow, rlLog>>
    /\ UNCHANGED <<remVars, ownVars, authVars, noteVars, collVars, optVars, roleVars, hookVars, dueVars, upVars, calcVars, pipeVars, dbVars>>

\* one request through the middleware the limiter returns
RateLimit ==
    /\ rlConfig.made
    /\ Len(rlLog) < MaxCalls
    /\ \E user \in UserIds \cup {NoUser} :
          IF user = NoUser
          THEN /\ rlLog' = Append(rlLog, [user |-> user, at |-> rlNow,
                                          status |-> "next", retryAfter |-> NaN])
               /\ UNCHANGED userRequests
          ELSE LET windowStart    == rlNow - rlConfig.windowMs
                   recentRequests ==
                       RecentRequests(RequestTimesOf(userRequests, user),
                                      windowStart)
               IN  IF RateExceeded(recentRequests, rlConfig.max)
                   THEN /\ rlLog' = Append(rlLog,
                              [user |-> user, at |-> rlNow, status |-> "429",
                               retryAfter |-> RetryAfter(recentRequests,
                                                 rlConfig.windowMs, rlNow)])
                        /\ UNCHANGED userRequests
                   ELSE /\ userRequests' =
                              MapSet(userRequests, user,
                                     Append(recentRequests, rlNow))
                        /\ rlLog' = Append(rlLog,
                              [user |-> user, at |-> rlNow, status |-> "next",
                               retryAfter |-> NaN])
    /\ UNCHANGED <<rlConfig, rlNow>>
    /\ UNCHANGED <<remVars, ownVars, authVars, noteVars, collVars, optVars, roleVars, hookVars, dueVars, upVars, calcVars, pipeVars, dbVars>>

\* time passes between two requests
RlTick ==
    /\ rlConfig.made
    /\ rlNow < MaxRlTicks * RlStep
    /\ rlNow' = rlNow + RlStep
    /\ UNCHANGED <<rlConfig, userRequests, rlLog>>
    /\ UNCHANGED <<remVars, ownVars, authVars, noteVars, collVars, optVars, roleVars, hookVars, dueVars, upVars, calcVars, pipeVars, dbVars>>

\* ------------------------------------- validateResourceOwnership (auth)

\* internal ids (User._id) and external identity ids (firebaseUid)
OwnerIds  == {"idA", "idB", "idC"}
OwnerUids == {"uidA", "uidB", "uidC"}

NoResource == [found |-> FALSE, user |-> "none", firebaseUid |-> "none"]
Resources  == [found : {TRUE}, user : OwnerIds, firebaseUid : OwnerUids]
\* what resourceModel.findById(req.params.id) resolves to, or that it rejects
\* (a malformed id)
Lookups == [throws : {FALSE}, resource : Resources \cup {NoResource}]
             \cup {[throws |-> TRUE, resource |-> NoResource]}
\* req.user / req.firebaseUser as the stages before the gate left them;
\* present = FALSE when no stage attached a user
NoRequester == [present |-> FALSE, id |-> "none", uid |-> "none"]
Requesters  == [present : {TRUE}, id : OwnerIds, uid : OwnerUids]
                 \cup {NoRequester}

IdleOwn ==
    [pc |-> "idle", lookup |-> [throws |-> FALSE, resource |-> NoResource],
     requester |-> NoRequester, status |-> "none", attached |-> NoResource]

\* (mutation of NotOwner: || instead of &&)
NotOwner_Either(resource, requester) ==
    resource.user # requester.id \/ resource.firebaseUid # requester.uid

\* the test of the 403: neither the internal id nor the external id matches
NotOwner(resource, requester) ==
    resource.user # requester.id /\ resource.firebaseUid # requester.uid

\* the gate is entered: everything up to "await resourceModel.findById"
OwnershipLookup ==
    /\ own.pc # "loading"
    /\ \E l \in Lookups, q \in Requesters :
          own' = [pc |-> "loading", lookup |-> l, requester |-> q,
                  status |-> "none", attached |-> NoResource]
    /\ UNCHANGED <<remVars, rlVars, authVars, noteVars, collVars, optVars, roleVars, hookVars, dueVars, upVars, calcVars, pipeVars, dbVars>>

\* the rest of the gate, after findById settled
OwnershipDecide ==
    /\ own.pc = "loading"
    /\ own' =
         IF own.lookup.throws
         THEN [own EXCEPT !.pc = "responded", !.status = "500"]
         ELSE IF ~own.lookup.resource.found
         THEN [own EXCEPT !.pc = "responded", !.status = "404"]
         ELSE IF ~own.requester.present
         \* req.user._id of undefined: a TypeError, caught
         THEN [own EXCEPT !.pc = "responded", !.status = "500"]
         ELSE IF NotOwner(own.lookup.resource, own.requester)
         THEN [own EXCEPT !.pc = "responded", !.status = "403"]
         ELSE [own EXCEPT !.pc = "next", !.status = "none",
                          !.attached = own.lookup.resource]
    /\ UNCHANGED <<remVars, rlVars, authVars, noteVars, collVars, optVars, roleVars, hookVars, dueVars, upVars, calcVars, pipeVars, dbVars>>

\* ------------------------------- authenticateToken and the User model

\* the requests in flight
Requests == {"r1", "r2"}
\* the identities the provider knows: uid and email of the decoded token
Identities == {[uid |-> "uidA", email |-> "a@keep.test"],
               [uid |-> "uidB", email |-> "b@keep.test"]}
NoIdentity == [uid |-> "none", email |-> "none"]
\* the Authorization header: absent (or without a token part), a token the
\* provider verifies, a token it reports as expired, a token it reports as
\* invalid (malformed, wrong signature, revoked)
Tokens == {[kind |-> "absent", identity |-> NoIdentity]}
            \cup [kind : {"valid"}, identity : Identities]
            \cup {[kind |-> "expired", identity |-> NoIdentity],
                  [kind |-> "invalid", identity |-> NoIdentity]}

NoUserDoc == [id |-> 0, firebaseUid |-> "none", email |-> "none",
              isActive |-> FALSE, lastLogin |-> 0]

IdleRequest ==
    [pc |-> "idle", token |-> [kind |-> "absent", identity |-> NoIdentity],
     decodedToken |-> NoIdentity, found |-> FALSE,
     user |-> NoUserDoc, firebaseUser |-> NoIdentity,
     reqUser |-> NoUserDoc,
     status |-> "none", code |-> "none", failure |-> "none",
     inactiveAtArrival |-> FALSE,
     gate |-> "none", gateCode |-> "none"]

\* error.message of what auth.verifyIdToken (the provider) rejects with
ProviderMessage(kind) ==
    IF kind = "expired" THEN "Firebase ID token has expired"
    ELSE "Decoding Firebase ID token failed"

\* error.message of what authenticateToken catches
ErrInvalidToken == "Invalid token"

\* config/firebase verifyIdToken: whatever the provider rejects with is caught
\* and replaced by new Error('Invalid token')
verifyIdTokenMessage(providerMessage) == ErrInvalidToken
\* a unique index refuses the insert: the driver's message, or the message
\* userSchema.post('save') substitutes when it recognises the error
DuplicateMessages == {"E11000 duplicate key error", "User already exists",
                      "Email address already registered"}
ErrDirectory    == "directory unavailable"

\* error.message.includes(part), for the parts the catch block asks for
\* ("Invalid token" holds no lower-case "invalid")
MessageIncludes(message, part) ==
    \/ message = ErrInvalidToken /\ part = "Invalid token"
    \/ message = "Firebase ID token has expired" /\ part = "expired"

\* the code of the 401 the catch block sends
CatchCode(message) ==
    IF MessageIncludes(message, "expired") THEN "TOKEN_EXPIRED"
    ELSE IF MessageIncludes(message, "Invalid token")
            \/ MessageIncludes(message, "invalid")
    THEN "INVALID_TOKEN"
    ELSE "AUTH_FAILED"

\* (mutation of Reject: a failure of the directory is answered 500)
Reject_Directory500(q, failure, message) ==
    [q EXCEPT !.pc = "rejected",
              !.status = IF failure = "directory" THEN "500" ELSE "401",
              !.code = CatchCode(message), !.failure = failure]

\* the catch block: a 401, nothing attached, next() not called
Reject(q, failure, message) ==
    [q EXCEPT !.pc = "rejected", !.status = "401",
              !.code = CatchCode(message), !.failure = failure]

\* User.findByFirebaseUid: findOne({ firebaseUid, isActive: true })
findByFirebaseUid(firebaseUid) ==
    {u \in users : u.firebaseUid = firebaseUid /\ u.isActive}

\* (mutation of UniqueIndexAllows: the collection has no unique index)
UniqueIndexAllows_NoIndex(doc) == TRUE

\* the unique indexes of userSchema on firebaseUid and on email
UniqueIndexAllows(doc) ==
    \A u \in users : u.firebaseUid # doc.firebaseUid /\ u.email # doc.email

\* User.createFromFirebase: the document create() inserts; pre('save') sets
\* lastLogin of a new document
NewUser(identity) ==
    [id |-> Cardinality(users) + 1, firebaseUid |-> identity.uid,
     email |-> identity.email, isActive |-> TRUE, lastLogin |-> authNow]

\* user.updateLastLogin(): the in-memory document after the assignment
updateLastLogin(doc) == [doc EXCEPT !.lastLogin = authNow]

\* save() of an existing document writes the modified path to the stored
\* document of the same _id
SaveLastLogin(doc) ==
    {IF u.id = doc.id THEN [u EXCEPT !.lastLogin = doc.lastLogin] ELSE u :
       u \in users}

\* a request arrives: header parsing, up to "await verifyIdToken(token)"
AuthStart(r) ==
    /\ reqs[r].pc = "idle"
    /\ \E token \in Tokens :
          reqs' = [reqs EXCEPT ![r] =
             IF token.kind = "absent"
             THEN [@ EXCEPT !.pc = "rejected", !.token = token,
                            !.status = "401", !.code = "none"]
             ELSE [@ EXCEPT !.pc = "verifying", !.token = token,
                            !.inactiveAtArrival =
                               \E u \in users :
                                  /\ u.firebaseUid = token.identity.uid
                                  /\ ~u.isActive]]
    /\ UNCHANGED <<users, authNow>>
    /\ UNCHANGED <<remVars, rlVars, ownVars, noteVars, collVars, optVars, roleVars, hookVars, dueVars, upVars, calcVars, pipeVars, dbVars>>

\* verifyIdToken settles, up to "await User.findByFirebaseUid"
AuthVerify(r) ==
    /\ reqs[r].pc = "verifying"
    /\ reqs' = [reqs EXCEPT ![r] =
          IF reqs[r].token.kind = "valid"
          THEN [@ EXCEPT !.pc = "finding",
                         !.decodedToken = reqs[r].token.identity]
          ELSE Reject(@, "verify",
                      verifyIdTokenMessage(ProviderMessage(reqs[r].token.kind)))]
    /\ UNCHANGED <<users, authNow>>
    /\ UNCHANGED <<remVars, rlVars, ownVars, noteVars, collVars, optVars, roleVars, hookVars, dueVars, upVars, calcVars, pipeVars, dbVars>>

\* findByFirebaseUid settles, up to the next await (create or update)
AuthFind(r) ==
    /\ reqs[r].pc = "finding"
    /\ \/ \E u \in findByFirebaseUid(reqs[r].decodedToken.uid) :
            reqs' = [reqs EXCEPT ![r] =
                       [@ EXCEPT !.pc = "updating", !.found = TRUE, !.user = u]]
       \/ /\ findByFirebaseUid(reqs[r].decodedToken.uid) = {}
          /\ reqs' = [reqs EXCEPT ![r] = [@ EXCEPT !.pc = "creating"]]
       \/ reqs' = [reqs EXCEPT ![r] = Reject(@, "directory", ErrDirectory)]
    /\ UNCHANGED <<users, authNow>>
    /\ UNCHANGED <<remVars, rlVars, ownVars, noteVars, collVars, optVars, roleVars, hookVars, dueVars, upVars, calcVars, pipeVars, dbVars>>

\* createFromFirebase settles; on success req.user, req.firebaseUser, next()
AuthCreate(r) ==
    /\ reqs[r].pc = "creating"
    /\ LET doc == NewUser(reqs[r].decodedToken)
       IN  \/ /\ UniqueIndexAllows(doc)
              /\ users' = users \cup {doc}
              /\ reqs' = [reqs EXCEPT ![r] =
                    [@ EXCEPT !.pc = "attached", !.user = doc,
                              !.reqUser = doc,
                              !.firebaseUser = reqs[r].decodedToken]]
           \/ /\ ~UniqueIndexAllows(doc)
              /\ \E message \in DuplicateMessages :
                    reqs' = [reqs EXCEPT ![r] = Reject(@, "duplicate", message)]
              /\ UNCHANGED users
           \/ /\ reqs' = [reqs EXCEPT ![r] = Reject(@, "directory", ErrDirectory)]
              /\ UNCHANGED users
    /\ UNCHANGED authNow
    /\ UNCHANGED <<remVars, rlVars, ownVars, noteVars, collVars, optVars, roleVars, hookVars, dueVars, upVars, calcVars, pipeVars, dbVars>>

\* updateLastLogin settles; on success req.user, req.firebaseUser, next()
AuthUpdate(r) ==
    /\ reqs[r].pc = "updating"
    /\ LET doc == updateLastLogin(reqs[r].user)
       IN  \/ /\ users' = SaveLastLogin(doc)
              /\ reqs' = [reqs EXCEPT ![r] =
                    [@ EXCEPT !.pc = "attached", !.user = doc,
                              !.reqUser = doc,
                              !.firebaseUser = reqs[r].decodedToken]]
           \/ /\ reqs' = [reqs EXCEPT ![r] = Reject(@, "directory", ErrDirectory)]
              /\ UNCHANGED users
    /\ UNCHANGED authNow
    /\ UNCHANGED <<remVars, rlVars, ownVars, noteVars, collVars, optVars, roleVars, hookVars, dueVars, upVars, calcVars, pipeVars, dbVars>>

\* checkUserStatus, the stage after authenticateToken called next()
CheckUserStatus(r) ==
    /\ reqs[r].pc = "attached"
    /\ reqs[r].gate = "none"
    /\ reqs' = [reqs EXCEPT ![r] =
          IF ~reqs[r].user.isActive
          THEN [@ EXCEPT !.gate = "403", !.gateCode = "ACCOUNT_INACTIVE"]
          ELSE [@ EXCEPT !.gate = "next"]]
    /\ UNCHANGED <<users, authNow>>
    /\ UNCHANGED <<remVars, rlVars, ownVars, noteVars, collVars, optVars, roleVars, hookVars, dueVars, upVars, calcVars, pipeVars, dbVars>>

\* an account is disabled: isActive = false on a stored document
DeactivateUser ==
    /\ \E u \in users :
          /\ u.isActive
          /\ users' = (users \ {u}) \cup {[u EXCEPT !.isActive = FALSE]}
    /\ UNCHANGED <<reqs, authNow>>
    /\ UNCHANGED <<remVars, rlVars, ownVars, noteVars, collVars, optVars, roleVars, hookVars, dueVars, upVars, calcVars, pipeVars, dbVars>>

\* time passes
AuthTick ==
    /\ authNow < MaxAuthTicks
    /\ authNow' = authNow + 1
    /\ UNCHANGED <<users, reqs>>
    /\ UNCHANGED <<remVars, rlVars, ownVars, noteVars, collVars, optVars, roleVars, hookVars, dueVars, upVars, calcVars, pipeVars, dbVars>>

\* -------------------------------- the pre('save') hook, statement by statement

\* isSnoozed / snoozeUntil of the document handed to save()
SnoozeStates == {[isSnoozed |-> FALSE, snoozeUntil |-> Null],
                 [isSnoozed |-> TRUE, snoozeUntil |-> StartTime],
                 [isSnoozed |-> TRUE, snoozeUntil |-> StartTime + 10]}

IdleHook ==
    [pc |-> "idle", t |-> StartTime, log |-> <<>>,
     input |-> NewReminder(StartTime, FALSE,
                           [type |-> "daily", interval |-> 1,
                            endDate |-> Null, occurrenceCount |-> Null]),
     doc |-> NewReminder(StartTime, FALSE,
                         [type |-> "daily", interval |-> 1,
                          endDate |-> Null, occurrenceCount |-> Null])]

\* save() is called on a document, at clock value t
SaveCalled ==
    /\ hook.pc = "idle"
    /\ \E rdt \in DateChoices, recurring \in BOOLEAN, pattern \in Patterns,
          active \in BOOLEAN, completed \in BOOLEAN, sn \in SnoozeStates,
          t \in ClockValues :
          LET doc == [NewReminder(rdt, recurring, pattern) EXCEPT
                         !.isActive = active, !.isCompleted = completed,
                         !.isSnoozed = sn.isSnoozed,
                         !.snoozeUntil = sn.snoozeUntil]
          IN  hook' = [pc |-> "called", t |-> t, log |-> <<>>,
                       input |-> doc, doc |-> doc]
    /\ UNCHANGED <<remVars, rlVars, ownVars, authVars, noteVars, collVars, optVars, roleVars, dueVars, upVars, calcVars, pipeVars, dbVars>>

\* the hook's first statement (lines 207-211)
HookFirstStatement ==
    /\ hook.pc = "called"
    /\ hook' = [hook EXCEPT !.pc = "halfway",
                            !.doc = PreSaveTrigger(hook.doc),
                            !.log = Append(@, "nextTrigger")]
    /\ UNCHANGED <<remVars, rlVars, ownVars, authVars, noteVars, collVars, optVars, roleVars, dueVars, upVars, calcVars, pipeVars, dbVars>>

\* the hook's second statement (lines 214-217), then next()
HookSecondStatement ==
    /\ hook.pc = "halfway"
    /\ hook' = [hook EXCEPT !.pc = "done",
                            !.doc = PreSaveSnooze(hook.doc, hook.t),
                            !.log = Append(@, "clearSnooze")]
    /\ UNCHANGED <<remVars, rlVars, ownVars, authVars, noteVars, collVars, optVars, roleVars, dueVars, upVars, calcVars, pipeVars, dbVars>>

\* --------------------------------------------- the upload middleware (multer)

\* the own keys of fileFilter's allowedTypes object
AllowedTypes ==
    {"image/jpeg", "image/jpg", "image/png", "image/gif", "image/webp",
     "application/pdf", "application/msword",
     "application/vnd.openxmlformats-officedocument.wordprocessingml.document",
     "text/plain", "audio/mpeg", "audio/wav", "audio/mp4", "audio/webm"}

\* allowedTypes is an object literal: a lookup also finds what it inherits
ObjectPrototypeKeys ==
    {"constructor", "__proto__", "toString", "valueOf", "hasOwnProperty",
     "isPrototypeOf", "propertyIsEnumerable", "toLocaleString"}

imageTypes == {"image/jpeg", "image/jpg", "image/png", "image/gif", "image/webp"}
audioTypes == {"audio/mpeg", "audio/wav", "audio/mp4", "audio/webm"}
documentTypes ==
    {"application/pdf", "application/msword",
     "application/vnd.openxmlformats-officedocument.wordprocessingml.document",
     "text/plain"}

\* limits.fileSize and limits.files of the multer instance
FileSizeLimit == 10 * 1024 * 1024
FilesLimit == 5

\* the routes: upload with or without a validateFileType(allowed) after it
NoValidator == {"no validator"}
Endpoints == {[name |-> "generic", allowed |-> NoValidator],
              [name |-> "image", allowed |-> imageTypes],
              [name |-> "audio", allowed |-> audioTypes],
              [name |-> "document", allowed |-> documentTypes]}

\* file.mimetype as the multipart parser delivers it: type/subtype
MimeTypes == {"image/png", "image/svg+xml", "application/pdf",
              "application/zip", "audio/mpeg"}
\* file sizes in bytes: small, exactly the limit, one byte more
FileSizes == {2048, FileSizeLimit, FileSizeLimit + 1}
\* file.originalname, as a sequence of characters: a.p  .e  a  d/a.b.p
OriginalNames == {<<"a", ".", "p">>, <<".", "e">>, <<"a">>,
                  <<"d", "/", "a", ".", "b", ".", "p">>}
\* Date.now() as decimal digits; Math.random().toString(36).substring(2, 15),
\* which is empty when Math.random() returns 0
Timestamps == {<<"1", "7">>}
Randoms == {<<>>, <<"k", "3">>}

UploadFiles == [mimetype : MimeTypes, size : FileSizes,
                originalname : OriginalNames]

\* the position of the last ch in s, 0 if there is none
LastIndexOf(s, ch) ==
    IF \E i \in 1..Len(s) : s[i] = ch
    THEN CHOOSE i \in 1..Len(s) :
            s[i] = ch /\ \A j \in (i + 1)..Len(s) : s[j] # ch
    ELSE 0

\* the last segment of a path
LastSegment(s) == SubSeq(s, LastIndexOf(s, "/") + 1, Len(s))

\* path.extname: from the last dot of the last segment, empty if there is no
\* dot or the only dot leads the segment
extname(s) ==
    LET b == LastSegment(s)
        k == LastIndexOf(b, ".")
    IN  IF k <= 1 \/ b = <<".", ".">> THEN <<>> ELSE SubSeq(b, k, Len(b))

\* path.basename(s, ext): the last segment, without ext if it ends with it
basename(s, ext) ==
    LET b == LastSegment(s)
    IN  IF /\ Len(ext) > 0
           /\ Len(ext) <= Len(b)
           /\ SubSeq(b, Len(b) - Len(ext) + 1, Len(b)) = ext
        THEN SubSeq(b, 1, Len(b) - Len(ext))
        ELSE b

\* generateName: `${nameWithoutExt}_${timestamp}_${random}${ext}`
generateName(originalname, timestamp, random) ==
    LET ext == extname(originalname)
        nameWithoutExt == basename(originalname, ext)
    IN  nameWithoutExt \o <<"_">> \o timestamp \o <<"_">> \o random \o ext

\* (mutation of FileFilterAccepts: every type is let through)
FileFilterAccepts_All(mimetype) == TRUE

\* fileFilter: if (allowedTypes[file.mimetype]) cb(null, true)
FileFilterAccepts(mimetype) ==
    mimetype \in AllowedTypes \cup ObjectPrototypeKeys

\* what multer reports for one file: the filter is asked when the file
\* starts, the size limit is met while it is read
FileError(file) ==
    IF ~FileFilterAccepts(file.mimetype) THEN "INVALID_FILE_TYPE"
    ELSE IF file.size > FileSizeLimit THEN "FILE_TOO_LARGE"
    ELSE "none"

\* the error of the upload: too many files, or that of the first file that
\* fails
UploadError(files) ==
    IF Len(files) > FilesLimit THEN "TOO_MANY_FILES"
    ELSE IF \E i \in 1..Len(files) : FileError(files[i]) # "none"
    THEN FileError(files[CHOOSE i \in 1..Len(files) :
                            /\ FileError(files[i]) # "none"
                            /\ \A j \in 1..(i - 1) : FileError(files[j]) = "none"])
    ELSE "none"

IdleUpload ==
    [pc |-> "idle", endpoint |-> "none", allowed |-> NoValidator,
     sent |-> <<>>, files |-> <<>>, uniqueFilename |-> <<>>,
     status |-> "none", code |-> "none"]

\* uploadSingle / uploadMultiple: multer parses the request, handleUploadError
\* answers 400 on an error, otherwise req.file / req.files are set and next()
Upload ==
    /\ up.pc = "idle"
    /\ \E endpoint \in Endpoints, n \in 1..MaxFiles :
         \E sent \in [1..n -> UploadFiles] :
            up' = IF UploadError(sent) # "none"
                  THEN [up EXCEPT !.pc = "rejected",
                                  !.endpoint = endpoint.name,
                                  !.allowed = endpoint.allowed,
                                  !.sent = sent,
                                  !.status = "400",
                                  !.code = UploadError(sent)]
                  ELSE [up EXCEPT !.pc = "uploaded",
                                  !.endpoint = endpoint.name,
                                  !.allowed = endpoint.allowed,
                                  !.sent = sent,
                                  !.files = sent]
    /\ UNCHANGED <<remVars, rlVars, ownVars, authVars, noteVars, collVars, optVars, roleVars, hookVars, dueVars, calcVars, pipeVars, dbVars>>

\* validateFileType(allowedTypes), on the routes that have it
ValidateFileType ==
    /\ up.pc = "uploaded"
    /\ up' = IF /\ up.allowed # NoValidator
                /\ \E i \in 1..Len(up.files) :
                      up.files[i].mimetype \notin up.allowed
             THEN [up EXCEPT !.pc = "rejected", !.status = "400",
                             !.code = "INVALID_FILE_TYPE_FOR_ENDPOINT"]
             ELSE [up EXCEPT !.pc = "validated"]
    /\ UNCHANGED <<remVars, rlVars, ownVars, authVars, noteVars, collVars, optVars, roleVars, hookVars, dueVars, calcVars, pipeVars, dbVars>>

\* generateUniqueFilename: a name for req.file / each of req.files, next()
GenerateUniqueFilename ==
    /\ up.pc = "validated"
    /\ \E timestamp \in [1..Len(up.files) -> Timestamps],
          random \in [1..Len(up.files) -> Randoms] :
          up' = [up EXCEPT
                   !.pc = "named",
                   !.uniqueFilename =
                      [i \in 1..Len(up.files) |->
                         generateName(up.files[i].originalname,
                                      timestamp[i], random[i])]]
    /\ UNCHANGED <<remVars, rlVars, ownVars, authVars, noteVars, collVars, optVars, roleVars, hookVars, dueVars, calcVars, pipeVars, dbVars>>

\* ------------------------------------------------------------ requireRole

\* the role names in use
Roles == {"user", "admin", "moderator", "owner"}
\* req.user.role: a role name, the empty string, or undefined
Undefined == "undefined"
RoleValues == Roles \cup {"", Undefined}
\* req.user: absent, or a user with some role value
RoleUsers == {[present |-> FALSE, role |-> Undefined]}
               \cup [present : {TRUE}, role : RoleValues]

IdleRoleGate ==
    [made |-> FALSE, roles |-> {}, pc |-> "idle",
     user |-> [present |-> FALSE, role |-> Undefined],
     status |-> "none", required |-> {}, current |-> "none"]

\* (mutation of UserRole: no default role)
UserRole_NoDefault(user) == user.role

\* const userRole = req.user.role || 'user'
UserRole(user) == IF user.role \in {"", Undefined} THEN "user" ELSE user.role

\* requireRole(roles): the middleware is made for an allowed set
RequireRole ==
    /\ ~roleGate.made
    /\ \E roles \in SUBSET Roles :
          roleGate' = [roleGate EXCEPT !.made = TRUE, !.roles = roles]
    /\ UNCHANGED <<remVars, rlVars, ownVars, authVars, noteVars, collVars, optVars, hookVars, dueVars, upVars, calcVars, pipeVars, dbVars>>

\* the middleware handles a request
RoleGate ==
    /\ roleGate.made
    /\ roleGate.pc = "idle"
    /\ \E user \in RoleUsers :
          roleGate' =
             IF ~user.present
             THEN [roleGate EXCEPT !.pc = "done", !.user = user,
                                   !.status = "401"]
             ELSE IF UserRole(user) \notin roleGate.roles
             THEN [roleGate EXCEPT !.pc = "done", !.user = user,
                                   !.status = "403",
                                   !.required = roleGate.roles,
                                   !.current = UserRole(user)]
             ELSE [roleGate EXCEPT !.pc = "done", !.user = user,
                                   !.status = "next"]
    /\ UNCHANGED <<remVars, rlVars, ownVars, authVars, noteVars, collVars, optVars, hookVars, dueVars, upVars, calcVars, pipeVars, dbVars>>

\* ----------------------------------------------------------- optionalAuth

IdleOptional ==
    [pc |-> "idle", token |-> [kind |-> "absent", identity |-> NoIdentity],
     decodedToken |-> NoIdentity, user |-> NoUserDoc,
     firebaseUser |-> NoIdentity, outcome |-> "none", failure |-> "none"]

\* optionalAuth's catch block: next() is called, whatever is on req stays
OptCatch(q, failure) ==
    [q EXCEPT !.pc = "done", !.outcome = "next", !.failure = failure]

\* a request arrives: header parsing, up to "await verifyIdToken(token)"
OptStart ==
    /\ opt.pc = "idle"
    /\ \E token \in Tokens :
          opt' = IF token.kind = "absent"
                 THEN [opt EXCEPT !.pc = "done", !.token = token,
                                  !.outcome = "next"]
                 ELSE [opt EXCEPT !.pc = "verifying", !.token = token]
    /\ UNCHANGED authVars
    /\ UNCHANGED <<remVars, rlVars, ownVars, noteVars, collVars, roleVars, hookVars, dueVars, upVars, calcVars, pipeVars, dbVars>>

\* verifyIdToken settles, up to "await User.findByFirebaseUid"
OptVerify ==
    /\ opt.pc = "verifying"
    /\ opt' = IF opt.token.kind = "valid"
              THEN [opt EXCEPT !.pc = "finding",
                               !.decodedToken = opt.token.identity]
              ELSE OptCatch(opt, "verify")
    /\ UNCHANGED authVars
    /\ UNCHANGED <<remVars, rlVars, ownVars, noteVars, collVars, roleVars, hookVars, dueVars, upVars, calcVars, pipeVars, dbVars>>

\* findByFirebaseUid settles: with an active user req.user and
\* req.firebaseUser are set and updateLastLogin is awaited; otherwise next()
OptFind ==
    /\ opt.pc = "finding"
    /\ \/ \E u \in findByFirebaseUid(opt.decodedToken.uid) :
            opt' = IF u.isActive
                   THEN [opt EXCEPT !.pc = "updating", !.user = u,
                                    !.firebaseUser = opt.decodedToken]
                   ELSE [opt EXCEPT !.pc = "done", !.outcome = "next"]
       \/ /\ findByFirebaseUid(opt.decodedToken.uid) = {}
          /\ opt' = [opt EXCEPT !.pc = "done", !.outcome = "next"]
       \/ opt' = OptCatch(opt, "find")
    /\ UNCHANGED authVars
    /\ UNCHANGED <<remVars, rlVars, ownVars, noteVars, collVars, roleVars, hookVars, dueVars, upVars, calcVars, pipeVars, dbVars>>

\* updateLastLogin settles: next(), from the try block or from the catch
OptUpdate ==
    /\ opt.pc = "updating"
    /\ LET doc == updateLastLogin(opt.user)
       IN  \/ /\ users' = SaveLastLogin(doc)
              /\ opt' = [opt EXCEPT !.pc = "done", !.user = doc,
                                    !.outcome = "next"]
           \/ /\ opt' = OptCatch([opt EXCEPT !.user = doc], "update")
              /\ UNCHANGED users
    /\ UNCHANGED <<reqs, authNow>>
    /\ UNCHANGED <<remVars, rlVars, ownVars, noteVars, collVars, roleVars, hookVars, dueVars, upVars, calcVars, pipeVars, dbVars>>

\* ---------------------------------------------------------- the Note model

\* a new note: the schema defaults of the status flags and timestamps
NewNote ==
    [isPinned |-> FALSE, isArchived |-> FALSE, isDeleted |-> FALSE,
     isFavorite |-> FALSE, deletedAt |-> Null, lastModified |-> noteNow]

\* noteSchema.pre('save'): lastModified is set; no status flag is touched
NotePreSave(doc) == [doc EXCEPT !.lastModified = noteNow]

togglePin(doc) == NotePreSave([doc EXCEPT !.isPinned = ~doc.isPinned])

toggleArchive(doc) ==
    LET flipped == [doc EXCEPT !.isArchived = ~doc.isArchived]
    IN  NotePreSave(IF flipped.isArchived
                    THEN [flipped EXCEPT !.isPinned = FALSE]
                    ELSE flipped)

toggleFavorite(doc) == NotePreSave([doc EXCEPT !.isFavorite = ~doc.isFavorite])

softDelete(doc) ==
    NotePreSave([doc EXCEPT !.isDeleted = TRUE, !.deletedAt = noteNow,
                            !.isPinned = FALSE])

restore(doc) ==
    NotePreSave([doc EXCEPT !.isDeleted = FALSE, !.deletedAt = Null])

TogglePin ==
    /\ note' = togglePin(note)
    /\ UNCHANGED noteNow
    /\ UNCHANGED <<remVars, rlVars, ownVars, authVars, collVars, optVars, roleVars, hookVars, dueVars, upVars, calcVars, pipeVars, dbVars>>

ToggleArchive ==
    /\ note' = toggleArchive(note)
    /\ UNCHANGED noteNow
    /\ UNCHANGED <<remVars, rlVars, ownVars, authVars, collVars, optVars, roleVars, hookVars, dueVars, upVars, calcVars, pipeVars, dbVars>>

ToggleFavorite ==
    /\ note' = toggleFavorite(note)
    /\ UNCHANGED noteNow
    /\ UNCHANGED <<remVars, rlVars, ownVars, authVars, collVars, optVars, roleVars, hookVars, dueVars, upVars, calcVars, pipeVars, dbVars>>

SoftDelete ==
    /\ note' = softDelete(note)
    /\ UNCHANGED noteNow
    /\ UNCHANGED <<remVars, rlVars, ownVars, authVars, collVars, optVars, roleVars, hookVars, dueVars, upVars, calcVars, pipeVars, dbVars>>

Restore ==
    /\ note' = restore(note)
    /\ UNCHANGED noteNow
    /\ UNCHANGED <<remVars, rlVars, ownVars, authVars, collVars, optVars, roleVars, hookVars, dueVars, upVars, calcVars, pipeVars, dbVars>>

\* time passes
NoteTick ==
    /\ noteNow < MaxNoteTicks
    /\ noteNow' = noteNow + 1
    /\ UNCHANGED note
    /\ UNCHANGED <<remVars, rlVars, ownVars, authVars, collVars, optVars, roleVars, hookVars, dueVars, upVars, calcVars, pipeVars, dbVars>>

\* ------------------------------------- the notes collection, Note.findByUser

\* a note of the collection: the status fields and its owner (_id = position)
NewCollNote(userId) == [user |-> userId] @@ NotePreSave(NewNote)

\* the options object of findByUser: includeArchived / includeDeleted are
\* either true or not given
FindOptions == [includeArchived : BOOLEAN, includeDeleted : BOOLEAN]

\* findByUser: the filter object it builds (lines 478-487); a condition that
\* is not added is an absent property
FindByUserFilter(userId, options) ==
    LET q0 == [user |-> userId]
        q1 == IF options.includeArchived # TRUE
              THEN q0 @@ [isArchived |-> FALSE] ELSE q0
    IN  IF options.includeDeleted # TRUE
        THEN q1 @@ [isDeleted |-> FALSE] ELSE q1

\* noteSchema.pre(/^find/): without an isDeleted property in the filter the
\* condition isDeleted: { $ne: true } is added (kept here as isDeleted_ne)
PreFind(query) ==
    IF "isDeleted" \notin DOMAIN query
    THEN query @@ [isDeleted_ne |-> TRUE]
    ELSE query

\* a document matches a filter: every condition holds
Matches(doc, query) ==
    \A f \in DOMAIN query :
        IF f = "isDeleted_ne" THEN doc.isDeleted # query[f]
        ELSE doc[f] = query[f]

\* the _ids that find(query) selects, once the pre-find hook has run
FindIds(query) ==
    {i \in 1..Len(noteColl) : Matches(noteColl[i], PreFind(query))}

\* sort({ isPinned: -1, updatedAt: -1 }): pinned first, then latest first
\* (updatedAt is written by the same save as lastModified)
SortsBefore(a, b) ==
    \/ a.isPinned /\ ~b.isPinned
    \/ a.isPinned = b.isPinned /\ a.lastModified >= b.lastModified

\* the orders of the selected _ids that the sort allows (ties are free)
SortedResults(ids) ==
    {sq \in [1..Cardinality(ids) -> ids] :
        /\ \A i \in 1..Cardinality(ids) : \A j \in 1..Cardinality(ids) :
              i < j => /\ sq[i] # sq[j]
                       /\ SortsBefore(noteColl[sq[i]], noteColl[sq[j]])}

NoFind == [asked |-> FALSE, userId |-> "none",
           options |-> [includeArchived |-> FALSE, includeDeleted |-> FALSE],
           result |-> <<>>]

\* Note.create for a user
InsertNote ==
    /\ Len(noteColl) < MaxNotes
    /\ \E userId \in UserIds : noteColl' = Append(noteColl, NewCollNote(userId))
    /\ UNCHANGED noteFind
    /\ UNCHANGED <<remVars, rlVars, ownVars, authVars, noteVars, optVars, roleVars, hookVars, dueVars, upVars, calcVars, pipeVars, dbVars>>

\* a status method on a stored note, with its save
CollMethod ==
    /\ \E i \in 1..Len(noteColl) :
         \E after \in {togglePin(noteColl[i]), toggleArchive(noteColl[i]),
                        softDelete(noteColl[i]), restore(noteColl[i])} :
            noteColl' = [noteColl EXCEPT ![i] = after]
    /\ UNCHANGED noteFind
    /\ UNCHANGED <<remVars, rlVars, ownVars, authVars, noteVars, optVars, roleVars, hookVars, dueVars, upVars, calcVars, pipeVars, dbVars>>

\* time passes between the operations on the collection
CollTick ==
    /\ noteNow < MaxCollTicks
    /\ noteNow' = noteNow + 1
    /\ UNCHANGED <<note, noteColl, noteFind>>
    /\ UNCHANGED <<remVars, rlVars, ownVars, authVars, optVars, roleVars, hookVars, dueVars, upVars, calcVars, pipeVars, dbVars>>

\* Note.findByUser(userId, options), the query executed
FindByUser ==
    /\ \E userId \in UserIds : \E options \in FindOptions :
         \E result \in SortedResults(FindIds(FindByUserFilter(userId, options))) :
            noteFind' = [asked |-> TRUE, userId |-> userId,
                         options |-> options, result |-> result]
    /\ UNCHANGED noteColl
    /\ UNCHANGED <<remVars, rlVars, ownVars, authVars, noteVars, optVars, roleVars, hookVars, dueVars, upVars, calcVars, pipeVars, dbVars>>

\* ------------------------------- reminder: calculateNextTrigger on its own

\* new Date(Date.UTC(y, m - 1, d, 10, 0)) for every date of 2023 and 2024
\* that falls on the first of a month or on a day some month does not have
AnchorDates ==
    {UTC(c[1], c[2], c[3], 10, 0) : c \in
        {c \in {2023, 2024} \X (1..12) \X {1, 28, 29, 30, 31} :
            getDate(UTC(c[1], c[2], c[3], 10, 0)) = c[3]}}

IdleCalc ==
    [called |-> FALSE, returned |-> "none",
     before |-> NewReminder(UTC(2024, 1, 1, 10, 0), FALSE,
                            [type |-> "daily", interval |-> 1,
                             endDate |-> Null, occurrenceCount |-> Null]),
     after  |-> NewReminder(UTC(2024, 1, 1, 10, 0), FALSE,
                            [type |-> "daily", interval |-> 1,
                             endDate |-> Null, occurrenceCount |-> Null])]

\* reminder.calculateNextTrigger() on a document as the hook finds it
\* (nextTrigger not set) or as scheduleNextOccurrence leaves it
\* (reminderDateTime just moved to the old nextTrigger); one call is followed
CalculateNextTrigger ==
    /\ ~calc.called
    /\ \E rdt \in AnchorDates : \E recurring \in BOOLEAN :
       \E pattern \in Patterns : \E fresh \in BOOLEAN :
         LET doc == [NewReminder(rdt, recurring, pattern) EXCEPT
                        !.nextTrigger = IF fresh THEN Null ELSE rdt]
         IN  calc' = [called |-> TRUE, returned |-> Undefined,
                      before |-> doc, after |-> calculateNextTrigger(doc)]
    /\ UNCHANGED <<remVars, rlVars, ownVars, authVars, noteVars, collVars, optVars, roleVars, hookVars, dueVars, upVars, pipeVars, dbVars>>

\* --------------------------------------- the chain of middleware stages

\* the chains a route puts in front of its handler
Chains ==
    {<<"authenticateToken", "checkUserStatus", "requireEmailVerification",
       "createUserRateLimit", "validateResourceOwnership">>,
     <<"authenticateToken", "checkUserStatus", "requireRole">>,
     <<"optionalAuth", "createUserRateLimit", "requireRole">>,
     <<"optionalAuth", "requireEmailVerification">>}

\* a request and the outcome of every external call made on its behalf:
\* the token sent, the account the directory holds for it, the claim
\* email_verified, whether the directory fails (on the lookup, or on the
\* insert or save), the resource lookup, whether the requester owns the
\* resource, and whether the limiter has already counted max requests
PipeInputs ==
    [token : {"absent", "valid", "bad"},
     account : {"none", "user", "admin", "inactive"},
     emailVerified : BOOLEAN,
     directory : {"ok", "findFails", "writeFails"},
     lookup : {"found", "missing", "fails"},
     owner : BOOLEAN,
     limited : BOOLEAN]

\* req.user and req.firebaseUser on a request no stage has touched
NoAttachment == [present |-> FALSE, isActive |-> FALSE, role |-> Undefined,
                 email_verified |-> FALSE]
FreshRequest == [user |-> NoAttachment, firebaseUser |-> NoAttachment]

\* the three ways a stage can end: res.status(..).json(..), next(), or an
\* exception leaving the function
Respond(ctx, status) ==
    [ctx |-> ctx, responses |-> 1, nexts |-> 0, threw |-> FALSE, status |-> status]
PassOn(ctx) ==
    [ctx |-> ctx, responses |-> 0, nexts |-> 1, threw |-> FALSE, status |-> "none"]
Throw(ctx) ==
    [ctx |-> ctx, responses |-> 0, nexts |-> 0, threw |-> TRUE, status |-> "none"]

\* what the two auth stages attach for the account of the token
Attach(ctx, in, isActive, role) ==
    [ctx EXCEPT !.user = [present |-> TRUE, isActive |-> isActive,
                          role |-> role, email_verified |-> FALSE],
                !.firebaseUser = [present |-> TRUE, isActive |-> FALSE,
                                  role |-> Undefined,
                                  email_verified |-> in.emailVerified]]

authenticateToken(ctx, in) ==
    IF in.token = "absent" THEN Respond(ctx, "401")
    ELSE IF in.token = "bad" THEN Respond(ctx, "401")
    ELSE IF in.directory = "findFails" THEN Respond(ctx, "401")
    ELSE IF in.account \in {"user", "admin"}
    THEN (IF in.directory = "writeFails" THEN Respond(ctx, "401")
          ELSE PassOn(Attach(ctx, in, TRUE, in.account)))
    ELSE IF in.account = "inactive" \/ in.directory = "writeFails"
    THEN Respond(ctx, "401")
    ELSE PassOn(Attach(ctx, in, TRUE, Undefined))

checkUserStatus(ctx) ==
    IF ~ctx.user.present THEN Respond(ctx, "500")
    ELSE IF ~ctx.user.isActive THEN Respond(ctx, "403")
    ELSE PassOn(ctx)

requireEmailVerification(ctx) ==
    IF ~ctx.firebaseUser.present THEN Throw(ctx)
    ELSE IF ~ctx.firebaseUser.email_verified THEN Respond(ctx, "403")
    ELSE PassOn(ctx)

optionalAuth(ctx, in) ==
    IF in.token = "absent" THEN PassOn(ctx)
    ELSE IF in.token = "bad" THEN PassOn(ctx)
    ELSE IF in.directory = "findFails" THEN PassOn(ctx)
    ELSE IF in.account \in {"user", "admin"}
    THEN PassOn(Attach(ctx, in, TRUE, in.account))
    ELSE PassOn(ctx)

requireRole(roles, ctx) ==
    IF ~ctx.user.present THEN Respond(ctx, "401")
    ELSE IF UserRole(ctx.user) \notin roles THEN Respond(ctx, "403")
    ELSE PassOn(ctx)

validateResourceOwnership(ctx, in) ==
    IF in.lookup = "fails" THEN Respond(ctx, "500")
    ELSE IF in.lookup = "missing" THEN Respond(ctx, "404")
    ELSE IF ~ctx.user.present THEN Respond(ctx, "500")
    ELSE IF ~in.owner THEN Respond(ctx, "403")
    ELSE PassOn(ctx)

userRateLimit(ctx, in) ==
    IF ~ctx.user.present THEN PassOn(ctx)
    ELSE IF in.limited THEN Respond(ctx, "429")
    ELSE PassOn(ctx)

RunStage(name, ctx, in) ==
    CASE name = "authenticateToken" -> authenticateToken(ctx, in)
      [] name = "checkUserStatus" -> checkUserStatus(ctx)
      [] name = "requireEmailVerification" -> requireEmailVerification(ctx)
      [] name = "optionalAuth" -> optionalAuth(ctx, in)
      [] name = "requireRole" -> requireRole({"admin"}, ctx)
      [] name = "validateResourceOwnership" -> validateResourceOwnership(ctx, in)
      [] name = "createUserRateLimit" -> userRateLimit(ctx, in)

IdlePipe ==
    [pc |-> "idle", chain |-> <<>>, pos |-> 1, ctx |-> FreshRequest,
     in |-> [token |-> "absent", account |-> "none", emailVerified |-> FALSE,
             directory |-> "ok", lookup |-> "found", owner |-> FALSE,
             limited |-> FALSE],
     log |-> <<>>, handler |-> 0, responses |-> 0]

\* a request arrives at a route
PipeStart ==
    /\ pipe.pc = "idle"
    /\ \E chain \in Chains : \E in \in PipeInputs :
          pipe' = [pipe EXCEPT !.pc = "running", !.chain = chain, !.in = in]
    /\ UNCHANGED <<remVars, rlVars, ownVars, authVars, noteVars, collVars, optVars, roleVars, hookVars, dueVars, upVars, calcVars, dbVars>>

\* the router calls the stage the chain has reached; next() moves on to the
\* following one, a response ends the request, an exception goes to the
\* error handler
PipeStage ==
    /\ pipe.pc = "running"
    /\ pipe.pos <= Len(pipe.chain)
    /\ LET name == pipe.chain[pipe.pos]
           r    == RunStage(name, pipe.ctx, pipe.in)
       IN  pipe' = [pipe EXCEPT
                      !.ctx = r.ctx,
                      !.log = Append(@, [stage |-> name,
                                         responses |-> r.responses,
                                         nexts |-> r.nexts,
                                         threw |-> r.threw,
                                         status |-> r.status]),
                      !.responses = @ + r.responses,
                      !.pos = @ + r.nexts,
                      !.pc = IF r.threw THEN "error"
                             ELSE IF r.responses > 0 THEN "done"
                             ELSE "running"]
    /\ UNCHANGED <<remVars, rlVars, ownVars, authVars, noteVars, collVars, optVars, roleVars, hookVars, dueVars, upVars, calcVars, dbVars>>

\* the route's handler, after the last stage called next()
PipeHandler ==
    /\ pipe.pc = "running"
    /\ pipe.pos > Len(pipe.chain)
    /\ pipe' = [pipe EXCEPT !.pc = "done", !.handler = @ + 1,
                            !.responses = @ + 1]
    /\ UNCHANGED <<remVars, rlVars, ownVars, authVars, noteVars, collVars, optVars, roleVars, hookVars, dueVars, upVars, calcVars, dbVars>>

\* the global error handler answers for a stage that threw
PipeErrorHandler ==
    /\ pipe.pc = "error"
    /\ pipe' = [pipe EXCEPT !.pc = "done", !.responses = @ + 1]
    /\ UNCHANGED <<remVars, rlVars, ownVars, authVars, noteVars, collVars, optVars, roleVars, hookVars, dueVars, upVars, calcVars, dbVars>>

\* ------------------------------------------------- database bootstrap

\* setTimeout(connectDB, 5000), in seconds
RetryDelay == 5

\* before connectDB is called: no attempt, no timer, no listener
IdleDb ==
    [pc |-> "idle", attempts |-> 0, timers |-> <<>>, scheduled |-> 0,
     waited |-> <<>>, reachable |-> FALSE, flips |-> 0,
     onError |-> 0, onDisconnected |-> 0, onSigint |-> 0, exited |-> FALSE]

\* the application calls connectDB(): up to "await mongoose.connect(..)"
ConnectDB ==
    /\ db.pc = "idle"
    /\ db' = [db EXCEPT !.pc = "connecting", !.attempts = @ + 1]
    /\ UNCHANGED <<remVars, rlVars, ownVars, authVars, noteVars, collVars, optVars, roleVars, hookVars, dueVars, upVars, calcVars, pipeVars>>

\* mongoose.connect resolves: the rest of the try block
ConnectResolves ==
    /\ db.pc = "connecting"
    /\ db.reachable
    /\ db' = [db EXCEPT !.pc = "connected",
                        !.onError = @ + 1,
                        !.onDisconnected = @ + 1,
                        !.onSigint = @ + 1]
    /\ UNCHANGED <<remVars, rlVars, ownVars, authVars, noteVars, collVars, optVars, roleVars, hookVars, dueVars, upVars, calcVars, pipeVars>>

\* (mutation of ConnectRejects: the catch block ends the process)
ConnectRejects_Exits ==
    /\ db.pc = "connecting"
    /\ ~db.reachable
    /\ db.attempts < MaxAttempts
    /\ db' = [db EXCEPT !.pc = "waiting", !.exited = TRUE]
    /\ UNCHANGED <<remVars, rlVars, ownVars, authVars, noteVars, collVars, optVars, roleVars, hookVars, dueVars, upVars, calcVars, pipeVars>>

\* mongoose.connect rejects: the catch block sets the timer
ConnectRejects ==
    /\ db.pc = "connecting"
    /\ ~db.reachable
    /\ db.attempts < MaxAttempts
    /\ db' = [db EXCEPT !.pc = "waiting",
                        !.timers = Append(@, RetryDelay),
                        !.scheduled = @ + 1]
    /\ UNCHANGED <<remVars, rlVars, ownVars, authVars, noteVars, collVars, optVars, roleVars, hookVars, dueVars, upVars, calcVars, pipeVars>>

\* a second passes while a timer is running
DbTick ==
    /\ db.timers # <<>>
    /\ \A i \in 1..Len(db.timers) : db.timers[i] > 0
    /\ db' = [db EXCEPT !.timers = [i \in 1..Len(@) |-> @[i] - 1]]
    /\ UNCHANGED <<remVars, rlVars, ownVars, authVars, noteVars, collVars, optVars, roleVars, hookVars, dueVars, upVars, calcVars, pipeVars>>

\* a timer has run out: connectDB is called again
TimerFires ==
    /\ db.timers # <<>>
    /\ Head(db.timers) = 0
    /\ db' = [db EXCEPT !.timers = Tail(@),
                        !.waited = Append(@, RetryDelay - Head(db.timers)),
                        !.pc = "connecting",
                        !.attempts = @ + 1]
    /\ UNCHANGED <<remVars, rlVars, ownVars, authVars, noteVars, collVars, optVars, roleVars, hookVars, dueVars, upVars, calcVars, pipeVars>>

\* the database server comes up or goes down
DbFlips ==
    /\ db.flips < MaxFlips
    /\ db.pc # "idle"
    /\ ~db.exited
    /\ db' = [db EXCEPT !.reachable = ~@, !.flips = @ + 1]
    /\ UNCHANGED <<remVars, rlVars, ownVars, authVars, noteVars, collVars, optVars, roleVars, hookVars, dueVars, upVars, calcVars, pipeVars>>

\* SIGINT arrives where the handler is registered: close, then process.exit
Sigint ==
    /\ db.onSigint > 0
    /\ ~db.exited
    /\ db' = [db EXCEPT !.exited = TRUE]
    /\ UNCHANGED <<remVars, rlVars, ownVars, authVars, noteVars, collVars, optVars, roleVars, hookVars, dueVars, upVars, calcVars, pipeVars>>

\* ------------------------------------------------------- specifications

Init ==
    /\ rem = NewReminder(UTC(2024, 1, 1, 10, 0), FALSE,
                         [type |-> "daily", interval |-> 1,
                          endDate |-> Null, occurrenceCount |-> Null])
    /\ remState = "none"
    /\ now = StartTime
    /\ edits = 0
    /\ rlConfig = [made |-> FALSE, windowMs |-> 0, max |-> 0]
    /\ userRequests = <<>>
    /\ rlNow = 0
    /\ rlLog = <<>>
    /\ own = IdleOwn
    /\ users = {}
    /\ reqs = [r \in Requests |-> IdleRequest]
    /\ authNow = 0
    /\ noteNow = 0
    /\ note = NotePreSave(NewNote)
    /\ opt = IdleOptional
    /\ up = IdleUpload
    /\ due = NoDueQuery
    /\ hook = IdleHook
    /\ roleGate = IdleRoleGate
    /\ noteColl = <<>>
    /\ noteFind = NoFind
    /\ calc = IdleCalc
    /\ pipe = IdlePipe
    /\ db = IdleDb

\* every operation on a reminder, direct edits included
Next ==
    \/ Create \/ MarkCompleted(MaxOccEdited) \/ Snooze \/ Dismiss(MaxOccEdited)
    \/ Tick \/ UpdatePriority \/ AddTag({Home}) \/ RemoveTag({Home})
    \/ EditDateTime \/ EditRecurring

Spec == Init /\ [][Next]_vars

\* a reminder driven by its instance methods
NextMethods ==
    \/ Create \/ MarkCompleted(MaxOcc) \/ Snooze \/ Dismiss(MaxOcc) \/ Tick
    \/ UpdatePriority \/ AddTag(Tags) \/ RemoveTag(Tags)

SpecMethods == Init /\ [][NextMethods]_vars

\* the tag and priority methods of a reminder, with tags as clients send them
NextTags ==
    \/ Create \/ Tick
    \/ UpdatePriority \/ AddTag(RawTags) \/ RemoveTag(RawTags)

SpecTags == Init /\ [][NextTags]_vars

\* a reminder driven by markCompleted, snooze and dismiss alone
NextLifecycle ==
    Create \/ MarkCompleted(MaxOcc) \/ Snooze \/ Dismiss(MaxOcc) \/ Tick

SpecLifecycle == Init /\ [][NextLifecycle]_vars

\* a reminder through its life, notified, and asked for by the notifier
NextDue ==
    \/ Create \/ MarkCompleted(MaxOcc) \/ Snooze \/ Dismiss(MaxOcc) \/ Tick
    \/ MarkNotificationSent
    \/ FindDueForNotification

SpecDue == Init /\ [][NextDue]_vars

\* the per-user rate limiter serving requests
NextRateLimit == CreateUserRateLimit \/ RateLimit \/ RlTick

SpecRateLimit == Init /\ [][NextRateLimit]_vars

\* requests passing the ownership gate, one at a time
NextOwnership == OwnershipLookup \/ OwnershipDecide

SpecOwnership == Init /\ [][NextOwnership]_vars

\* concurrent requests in authenticateToken over one user directory
NextAuth ==
    \/ \E r \in Requests :
          AuthStart(r) \/ AuthVerify(r) \/ AuthFind(r) \/ AuthCreate(r)
            \/ AuthUpdate(r) \/ CheckUserStatus(r)
    \/ DeactivateUser
    \/ AuthTick

SpecAuth == Init /\ [][NextAuth]_vars

\* the same, where every awaited promise settles: the verification, the
\* lookup, the insert and the save each resolve or reject in the end
SpecAuthFair ==
    /\ Init /\ [][NextAuth]_vars
    /\ \A r \in Requests :
          /\ WF_vars(AuthVerify(r))
          /\ WF_vars(AuthFind(r))
          /\ WF_vars(AuthCreate(r))
          /\ WF_vars(AuthUpdate(r))

\* optionalAuth next to the requests of authenticateToken on one directory
NextOptionalAuth ==
    \/ NextAuth
    \/ OptStart \/ OptVerify \/ OptFind \/ OptUpdate

SpecOptionalAuth == Init /\ [][NextOptionalAuth]_vars

\* the pre-save hook on every kind of document, one statement at a time
NextPreSave == SaveCalled \/ HookFirstStatement \/ HookSecondStatement

SpecPreSave == Init /\ [][NextPreSave]_vars

\* an upload through multer, the type validator and the file namer
NextUpload == Upload \/ ValidateFileType \/ GenerateUniqueFilename

SpecUpload == Init /\ [][NextUpload]_vars

\* the role gate, for every allowed set and every request
NextRole == RequireRole \/ RoleGate

SpecRole == Init /\ [][NextRole]_vars

\* calculateNextTrigger on every kind of reminder and anchor date
NextCalc == CalculateNextTrigger

SpecCalc == Init /\ [][NextCalc]_vars

\* one request through a chain of stages and on to the handler
NextPipe == PipeStart \/ PipeStage \/ PipeHandler \/ PipeErrorHandler

SpecPipe == Init /\ [][NextPipe]_vars

\* the database bootstrap, with the server coming and going
NextDb ==
    \/ ConnectDB \/ ConnectResolves \/ ConnectRejects
    \/ DbTick \/ TimerFires \/ DbFlips \/ Sigint

SpecDb == Init /\ [][NextDb]_vars

\* the same, where mongoose.connect settles, time passes and timers fire
SpecDbFair ==
    /\ Init /\ [][NextDb]_vars
    /\ WF_vars(ConnectDB)
    /\ WF_vars(ConnectResolves)
    /\ WF_vars(ConnectRejects)
    /\ WF_vars(DbTick)
    /\ WF_vars(TimerFires)

\* the status methods of one note, in any order
NextNote ==
    \/ TogglePin
    \/ ToggleArchive
    \/ ToggleFavorite
    \/ SoftDelete
    \/ Restore
    \/ NoteTick

SpecNote == Init /\ [][NextNote]_vars

\* notes of two users, their status methods, and findByUser
NextNoteQuery ==
    \/ InsertNote
    \/ CollMethod
    \/ FindByUser
    \/ CollTick

SpecNoteQuery == Init /\ [][NextNoteQuery]_vars

\* ------------------------------------------------------ reminder: claims

IsLeapYear(y) == (y % 4 = 0 /\ y % 100 # 0) \/ y % 400 = 0

DaysInMonth(y, m) ==
    IF m = 2 THEN (IF IsLeapYear(y) THEN 29 ELSE 28)
    ELSE IF m \in {4, 6, 9, 11} THEN 30 ELSE 31

\* t moved n calendar months on, same day of month and time of day; a day
\* the target month does not have rolls over into the month after it
MonthsLater(t, n) ==
    LET c   == CivilFromDays(t \div MinPerDay)
        idx == c.y * 12 + (c.m - 1) + n
        y2  == idx \div 12
        m2  == (idx % 12) + 1
        dim == DaysInMonth(y2, m2)
        y3  == IF m2 = 12 THEN y2 + 1 ELSE y2
        m3  == IF m2 = 12 THEN 1 ELSE m2 + 1
        day == IF c.d <= dim THEN DaysFromCivil(y2, m2, c.d)
               ELSE DaysFromCivil(y3, m3, c.d - dim)
    IN  day * MinPerDay + (t % MinPerDay)

\* t advanced by one step of the recurrence pattern
OneStepLater(t, pattern) ==
    CASE pattern.type = "daily"   -> t + pattern.interval * MinPerDay
      [] pattern.type = "weekly"  -> t + 7 * pattern.interval * MinPerDay
      [] pattern.type = "monthly" -> MonthsLater(t, pattern.interval)
      [] pattern.type = "yearly"  -> MonthsLater(t, 12 * pattern.interval)
      [] OTHER                    -> t + MinPerDay

Pending(doc) == doc.isActive /\ ~doc.isCompleted

\* C1: after every save of a non-recurring reminder, reached by any sequence
\* of markCompleted, snooze, dismiss, updatePriority, addTag, removeTag and
\* direct edits followed by save, nextTrigger equals reminderDateTime.
C1_NonRecurringTriggerIsDateTime ==
    (remState = "saved" /\ ~rem.isRecurring)
        => rem.nextTrigger = rem.reminderDateTime

\* C1 witness: a non-recurring reminder that was completed, dismissed,
\* tagged, re-prioritised and then moved to another time.
C1_Witness ==
    /\ remState = "saved" /\ ~rem.isRecurring
    /\ rem.isCompleted /\ ~rem.isActive /\ rem.isSnoozed
    /\ rem.tags # <<>> /\ rem.priority = "high"
    /\ edits = 1 /\ rem.reminderDateTime \in EditDateChoices

\* C2 (as claimed): after every save of a recurring reminder, whatever its
\* flags, nextTrigger is reminderDateTime advanced by one recurrence step.
C2_RecurringTriggerAlwaysDerived ==
    (remState = "saved" /\ rem.isRecurring)
        => rem.nextTrigger = OneStepLater(rem.reminderDateTime,
                                          rem.recurrencePattern)

\* C2 (amended): after every save of a recurring reminder that is active and
\* not completed, nextTrigger is reminderDateTime advanced by one recurrence
\* step (the save of an inactive or completed recurring reminder does not
\* recompute nextTrigger).
C2_PendingRecurringTriggerDerived ==
    (remState = "saved" /\ rem.isRecurring /\ Pending(rem))
        => rem.nextTrigger = OneStepLater(rem.reminderDateTime,
                                          rem.recurrencePattern)

\* C2 witness: a pending recurring reminder saved after its time was edited,
\* its trigger one step after the new time.
C2_Witness ==
    /\ remState = "saved" /\ rem.isRecurring /\ Pending(rem)
    /\ edits = 1 /\ rem.reminderDateTime \in EditDateChoices
    /\ rem.recurrencePattern.type = "monthly"
    /\ rem.nextTrigger # rem.reminderDateTime

\* C3 (as claimed): exactly one of completed, active-and-pending, inactive
\* describes a reminder; it is never both completed and inactive.
C3_ExactlyOneDescription ==
    remState = "saved" =>
        /\ rem.isCompleted \/ Pending(rem) \/ ~rem.isActive
        /\ ~(rem.isCompleted /\ Pending(rem))
        /\ ~(Pending(rem) /\ ~rem.isActive)
        /\ ~(rem.isCompleted /\ ~rem.isActive)

\* C3 (amended): completed and inactive may hold together; what markCompleted,
\* snooze and dismiss never produce is a recurring reminder that is completed
\* while still active: a completed recurring reminder is inactive.
C3_CompletedRecurringIsInactive ==
    (remState = "saved" /\ rem.isRecurring /\ rem.isCompleted)
        => ~rem.isActive

\* C3 witness: a recurring reminder that is completed and inactive at once.
C3_Witness ==
    /\ remState = "saved" /\ rem.isRecurring
    /\ rem.isCompleted /\ ~rem.isActive

OnlyCompletions(occ) == \A i \in 1..Len(occ) : ~occ[i].wasSkipped

\* the step appends one occurrence record that is not a skip: a markCompleted
\* of a recurring reminder
CompletionStep ==
    /\ remState = "saved"
    /\ rem.isRecurring
    /\ rem' = markCompleted(rem, now)

\* C4: a recurring reminder with occurrenceCount = N and no endDate, its
\* history holding completions only, is active while fewer than N
\* markCompleted calls were made and inactive from the N-th on; a
\* markCompleted call after the N-th leaves reminderDateTime, nextTrigger and
\* isActive unchanged.
C4_InactiveExactlyAtNthCompletion ==
    /\ [](  (/\ remState = "saved" /\ rem.isRecurring
             /\ rem.recurrencePattern.occurrenceCount # Null
             /\ rem.recurrencePattern.endDate = Null
             /\ OnlyCompletions(rem.occurrences))
            => (rem.isActive <=>
                  Len(rem.occurrences) < rem.recurrencePattern.occurrenceCount))
    /\ [][ (/\ CompletionStep
            /\ rem.recurrencePattern.occurrenceCount # Null
            /\ rem.recurrencePattern.endDate = Null
            /\ Len(rem.occurrences) >= rem.recurrencePattern.occurrenceCount)
            => /\ rem'.reminderDateTime = rem.reminderDateTime
               /\ rem'.nextTrigger = rem.nextTrigger
               /\ rem'.isActive = rem.isActive
               /\ ~rem'.isActive ]_vars

\* C4 witness: occurrenceCount = 2, three completions, inactive.
C4_Witness ==
    /\ remState = "saved" /\ rem.isRecurring
    /\ rem.recurrencePattern.occurrenceCount = 2
    /\ rem.recurrencePattern.endDate = Null
    /\ Len(rem.occurrences) = 3 /\ OnlyCompletions(rem.occurrences)
    /\ ~rem.isActive

\* the end conditions scheduleNextOccurrence tests, with the record of the
\* running call counted
EndConditionMet(doc, t) ==
    \/ doc.recurrencePattern.endDate # Null /\ t > doc.recurrencePattern.endDate
    \/ /\ doc.recurrencePattern.occurrenceCount # Null
       /\ Len(doc.occurrences) + 1 >= doc.recurrencePattern.occurrenceCount

\* C5: markCompleted on an active daily recurring reminder with interval n
\* whose end conditions are not met appends exactly one record {scheduledFor =
\* the old reminderDateTime, completedAt = now}, advances reminderDateTime by
\* exactly n days and leaves the reminder pending.
C5_DailyCompletionAdvances ==
    [][ (/\ CompletionStep
         /\ rem.isActive
         /\ rem.recurrencePattern.type = "daily"
         /\ ~EndConditionMet(rem, now))
        => /\ rem'.occurrences =
                 Append(rem.occurrences,
                        [scheduledFor |-> rem.reminderDateTime,
                         completedAt  |-> now,
                         wasSkipped   |-> FALSE])
           /\ rem'.reminderDateTime =
                 rem.reminderDateTime + rem.recurrencePattern.interval * MinPerDay
           /\ ~rem'.isCompleted
           /\ rem'.completedAt = Null
           /\ ~rem'.notificationSent ]_vars

\* C5 witness: daily, interval 3, 2024-01-01T10:00Z completed once: the
\* reminder is pending again at 2024-01-04T10:00Z.
C5_Witness ==
    /\ remState = "saved" /\ rem.isRecurring
    /\ rem.recurrencePattern.type = "daily"
    /\ rem.recurrencePattern.interval = 3
    /\ Len(rem.occurrences) = 1
    /\ rem.occurrences[1].scheduledFor = UTC(2024, 1, 1, 10, 0)
    /\ rem.occurrences[1].completedAt = now
    /\ rem.reminderDateTime = UTC(2024, 1, 4, 10, 0)
    /\ ~rem.isCompleted

\* -------------------------------------------------- rate limiter: claims

\* the calls one user made, in order
CallsOf(user) == SelectSeq(rlLog, LAMBDA c : c.user = user)

\* C6: with max = M >= 1 and window W, for one authenticated user: the first
\* M calls are passed on; the (M+1)-th call, made within W of the first, is
\* rejected with 429 and a retryAfter >= 0; and the first call made once W has
\* elapsed since the earliest counted call is passed on again.
C6_WindowLimit ==
    (rlConfig.made /\ rlConfig.max >= 1) =>
      \A user \in UserIds :
        LET log == CallsOf(user)
            M   == rlConfig.max
            W   == rlConfig.windowMs
        IN  /\ \A i \in 1..Len(log) : i <= M => log[i].status = "next"
            /\ (Len(log) > M /\ log[M + 1].at < log[1].at + W)
                  => /\ log[M + 1].status = "429"
                     /\ log[M + 1].retryAfter # NaN
                     /\ log[M + 1].retryAfter >= 0
            /\ \A k \in (M + 1)..Len(log) :
                  (/\ log[k].at >= log[1].at + W
                   /\ \A j \in (M + 1)..(k - 1) : log[j].status = "429")
                  => log[k].status = "next"

\* C6 witness: max = 3, windowMs = 1000: three calls passed, the fourth in the
\* same window rejected, the fifth, a window after the first, passed.
C6_Witness ==
    /\ rlConfig.made /\ rlConfig.max = 3 /\ rlConfig.windowMs = 1000
    /\ LET log == CallsOf("idA")
       IN  /\ Len(log) = 5
           /\ \A i \in 1..3 : log[i].status = "next" /\ log[i].at < 1000
           /\ log[4].status = "429" /\ log[4].at < log[1].at + 1000
           /\ log[4].retryAfter >= 0
           /\ log[5].status = "next" /\ log[5].at >= log[1].at + 1000

\* ------------------------------------------------- ownership gate: claims

OwnDone == own.pc \in {"responded", "next"}

\* C7: for every loaded resource and requester the gate passes the request
\* on, with the resource attached, if the resource's user reference equals the
\* requester's internal id or its firebaseUid equals the requester's external
\* id; it answers 403 exactly when neither matches; an absent resource is
\* answered with 404 and never attached.
C7_OwnershipGate ==
    (OwnDone /\ ~own.lookup.throws) =>
      LET r == own.lookup.resource
          q == own.requester
      IN  /\ ~r.found => (own.status = "404" /\ own.attached = NoResource)
          /\ (r.found /\ q.present) =>
                /\ (r.user = q.id \/ r.firebaseUid = q.uid)
                      => (own.pc = "next" /\ own.attached = r)
                /\ own.status = "403"
                      <=> (r.user # q.id /\ r.firebaseUid # q.uid)
                /\ own.status = "403" => own.attached = NoResource

\* C7 witness: a resource of user A passed on to a requester who matches by
\* external identity id only.
C7_Witness ==
    /\ own.pc = "next"
    /\ own.lookup.resource.found
    /\ own.lookup.resource.user = "idA"
    /\ own.lookup.resource.firebaseUid = "uidA"
    /\ own.requester.id = "idB" /\ own.requester.uid = "uidA"
    /\ own.attached = own.lookup.resource


\* ------------------------------------------------ claims on authentication

\* the request has left authenticateToken
AuthDone(r) == reqs[r].pc \in {"attached", "rejected"}

\* the stored documents of one external identity
RecordsOf(firebaseUid) == {u \in users : u.firebaseUid = firebaseUid}

\* C8 (as stated): every request whose token the verifier accepts leaves
\* authenticateToken attached, with one user document and the verified claims
\* on the request, whatever the directory held for that identity (nothing, an
\* active document, a document with isActive false, or a concurrent request for
\* the same new identity). Requests that met a directory outage are left out.
C8_ValidTokenAlwaysAttached ==
    \A r \in Requests :
        (/\ reqs[r].token.kind = "valid"
         /\ AuthDone(r)
         /\ reqs[r].failure # "directory")
        => /\ reqs[r].pc = "attached"
           /\ reqs[r].user.firebaseUid = reqs[r].token.identity.uid
           /\ reqs[r].firebaseUser = reqs[r].token.identity

\* C9, part 1: no two stored documents share a firebaseUid
C9_UniqueFirebaseUid ==
    \A u \in users : \A v \in users :
        u.firebaseUid = v.firebaseUid => u = v

\* C9, part 2: a document is inserted only for an identity that has none
C9_CreateOnlyOnce ==
    \A u \in users' :
        (\A v \in users : v.id # u.id) => RecordsOf(u.firebaseUid) = {}

\* C9, part 3: a request that found a document leaves authenticateToken only
\* by writing lastLogin = now to that document (or on a directory outage)
C9_FoundUpdatesLastLogin ==
    \A r \in Requests :
        (reqs[r].found /\ ~AuthDone(r) /\ reqs'[r].pc \in {"attached", "rejected"})
        => \/ reqs'[r].failure = "directory"
           \/ /\ reqs'[r].pc = "attached"
              /\ reqs'[r].user.lastLogin = authNow
              /\ \E u \in users' : /\ u.id = reqs[r].user.id
                                    /\ u.firebaseUid = reqs[r].decodedToken.uid
                                    /\ u.lastLogin = authNow

\* C9: under every interleaving of authenticateToken calls the directory never
\* holds two documents with the same firebaseUid, a document is created at most
\* once per identity, and every call that finds a document updates lastLogin.
C9_CreateOnceUpdateAlways ==
    /\ []C9_UniqueFirebaseUid
    /\ [][C9_CreateOnlyOnce /\ C9_FoundUpdatesLastLogin]_vars

\* C9 happens: one call created the document of an identity, a later call for
\* the same identity found it and moved its lastLogin forward, and the
\* directory holds that one document
C9_Witness ==
    \E r1 \in Requests : \E r2 \in Requests :
        /\ reqs[r1].pc = "attached" /\ ~reqs[r1].found
        /\ reqs[r2].decodedToken = reqs[r1].decodedToken
        /\ Cardinality(RecordsOf(reqs[r1].decodedToken.uid)) = 1
        /\ reqs[r2].pc = "attached" /\ reqs[r2].found
        /\ reqs[r2].user.lastLogin > reqs[r1].user.lastLogin

\* ------------------------------------------------------- claims on notes

\* C10 (as stated): no sequence of togglePin, toggleArchive, toggleFavorite,
\* softDelete and restore reaches a note that is pinned and archived, nor one
\* that is pinned and soft-deleted.
C10_PinnedExcludesArchivedAndDeleted ==
    /\ ~(note.isPinned /\ note.isArchived)
    /\ ~(note.isPinned /\ note.isDeleted)

\* ------------------------------------------------- claims on findByUser

\* the _ids a query returned
ResultIds(find) == {find.result[k] : k \in 1..Len(find.result)}

\* findByUser just ran (its result is of the collection as it is)
JustFound == noteFind' # noteFind

\* no soft-deleted note is returned unless includeDeleted is true
NoDeletedByDefault(find) ==
    find.options.includeDeleted # TRUE
    => \A i \in ResultIds(find) : ~noteColl[i].isDeleted

\* with includeDeleted true the user's soft-deleted notes are returned
\* (the archived ones when includeArchived is true as well)
DeletedWhenAsked(find) ==
    find.options.includeDeleted = TRUE
    => \A i \in 1..Len(noteColl) :
          (/\ noteColl[i].user = find.userId
           /\ noteColl[i].isDeleted
           /\ (find.options.includeArchived \/ ~noteColl[i].isArchived))
          => i \in ResultIds(find)

\* C11 (as stated): findByUser never returns a soft-deleted note when
\* includeDeleted is not true, and returns the user's soft-deleted notes when
\* includeDeleted is true, the pre-find default filter taken into account.
C11_DeletedOnlyWhenRequested ==
    [][JustFound => NoDeletedByDefault(noteFind') /\ DeletedWhenAsked(noteFind')]_vars

\* ------------------------------------- claims on the 401 and 403 answers

\* C12 (as stated): a request without a bearer credential is rejected by
\* authenticateToken with status 401 and code AUTH_FAILED, the verifier not
\* called and the user directory not touched.
C12_MissingTokenAuthFailed ==
    \A r \in Requests :
        (reqs[r].pc # "idle" /\ reqs[r].token.kind = "absent")
        => /\ reqs[r].pc = "rejected"
           /\ reqs[r].status = "401"
           /\ reqs[r].code = "AUTH_FAILED"
           /\ reqs[r].decodedToken = NoIdentity
           /\ ~reqs[r].found
           /\ reqs[r].user = NoUserDoc

\* C13 (as stated): a token the provider reports as expired is rejected with
\* 401 TOKEN_EXPIRED, one it reports as invalid with 401 INVALID_TOKEN, and
\* any other failure of the stage with 401 AUTH_FAILED.
C13_FailuresClassified ==
    \A r \in Requests :
        (reqs[r].pc = "rejected" /\ reqs[r].token.kind # "absent")
        => /\ reqs[r].status = "401"
           /\ reqs[r].token.kind = "expired" => reqs[r].code = "TOKEN_EXPIRED"
           /\ reqs[r].token.kind = "invalid" => reqs[r].code = "INVALID_TOKEN"
           /\ reqs[r].token.kind = "valid" => reqs[r].code = "AUTH_FAILED"

\* the request has left the pipeline authenticateToken, checkUserStatus
PipelineDone(r) == reqs[r].pc = "rejected" \/ reqs[r].gate # "none"

\* C14 (as stated): in the pipeline authenticateToken, checkUserStatus a
\* request with a valid token whose user document has isActive false is
\* answered 403 ACCOUNT_INACTIVE, and one whose user is active passes the
\* gate. Requests that met a directory outage are left out.
C14_InactiveAccountGets403 ==
    \A r \in Requests :
        (/\ reqs[r].token.kind = "valid"
         /\ PipelineDone(r)
         /\ reqs[r].failure # "directory")
        => /\ reqs[r].inactiveAtArrival
                => reqs[r].gate = "403" /\ reqs[r].gateCode = "ACCOUNT_INACTIVE"
           /\ (reqs[r].pc = "attached" /\ reqs[r].user.isActive)
                => reqs[r].gate = "next"

\* -------------------------------------------------- claims on optionalAuth

\* C15 (as stated): optionalAuth never sends an error response, it always
\* calls next, and whenever a step of it failed (verification, lookup, or the
\* last-login update) the request goes on with no user and no claims attached.
C15_OptionalFailureAttachesNothing ==
    opt.pc = "done"
    => /\ opt.outcome = "next"
       /\ opt.failure # "none"
            => opt.user = NoUserDoc /\ opt.firebaseUser = NoIdentity

\* --------------------------------------------------- claims on requireRole

\* the role the claim speaks of: the record's role, 'user' when it has none
ClaimedRole(user) ==
    IF user.role = Undefined \/ user.role = "" THEN "user" ELSE user.role

\* C16: with allowed set R, a request with no attached user is answered 401;
\* one whose role (defaulting to 'user') is not in R is answered 403 with
\* required = R and current = that role; one whose role is in R is passed on.
C16_RoleGate ==
    roleGate.pc = "done"
    => /\ ~roleGate.user.present => roleGate.status = "401"
       /\ (roleGate.user.present
             /\ ClaimedRole(roleGate.user) \notin roleGate.roles)
            => /\ roleGate.status = "403"
               /\ roleGate.required = roleGate.roles
               /\ roleGate.current = ClaimedRole(roleGate.user)
       /\ (roleGate.user.present
             /\ ClaimedRole(roleGate.user) \in roleGate.roles)
            => roleGate.status = "next"

\* C16 happens: a user without a role field met a gate that does not allow
\* 'user' and was answered 403 with current = 'user'
C16_Witness ==
    /\ roleGate.pc = "done"
    /\ roleGate.user.present
    /\ roleGate.user.role = Undefined
    /\ roleGate.roles = {"admin", "owner"}
    /\ roleGate.status = "403"
    /\ roleGate.current = "user"

\* --------------------------------------- claims on the end of a recurrence

\* the step is a markCompleted or a dismiss of a recurring reminder
RecurringOccurrenceStep ==
    /\ remState = "saved"
    /\ rem.isRecurring
    /\ rem' = markCompleted(rem, now) \/ rem' = dismiss(rem, now)

\* C17: after markCompleted or dismiss on a recurring reminder whose endDate
\* is set and passed, or whose occurrenceCount is set and reached by the
\* history (the record just appended counted), the reminder is inactive and
\* reminderDateTime was not advanced; otherwise the reminder stays active and
\* reminderDateTime is advanced by one recurrence step.
C17_EndConditionStopsRecurrence ==
    [][ RecurringOccurrenceStep
        => IF EndConditionMet(rem, now)
           THEN /\ ~rem'.isActive
                /\ rem'.reminderDateTime = rem.reminderDateTime
           ELSE /\ rem'.isActive
                /\ rem'.reminderDateTime =
                      OneStepLater(rem.reminderDateTime, rem.recurrencePattern)
      ]_vars

\* C17 happens: a reminder with endDate 2024-01-02T00:00Z and no count was
\* dismissed after that date: one skip recorded, inactive, date not moved
C17_Witness ==
    /\ remState = "saved" /\ rem.isRecurring
    /\ rem.recurrencePattern.endDate = UTC(2024, 1, 2, 0, 0)
    /\ rem.recurrencePattern.occurrenceCount = Null
    /\ now > rem.recurrencePattern.endDate
    /\ Len(rem.occurrences) = 1
    /\ rem.occurrences[1].wasSkipped
    /\ rem.occurrences[1].scheduledFor = rem.reminderDateTime
    /\ ~rem.isActive

\* ----------------------------------------- claims on the pre-save hook

\* the snooze of doc ran out before t
StaleSnooze(doc, t) ==
    doc.isSnoozed /\ doc.snoozeUntil # Null /\ doc.snoozeUntil < t

\* what a save does to the snooze: one that ran out before the save time is
\* cleared (isSnoozed = false, snoozeUntil = null), any other is kept
SnoozeHandled ==
    /\ ~StaleSnooze(hook.doc, hook.t)
    /\ StaleSnooze(hook.input, hook.t)
         => ~hook.doc.isSnoozed /\ hook.doc.snoozeUntil = Null
    /\ ~StaleSnooze(hook.input, hook.t)
         => /\ hook.doc.isSnoozed = hook.input.isSnoozed
            /\ hook.doc.snoozeUntil = hook.input.snoozeUntil

\* C18 (as stated): on every save a snooze whose snoozeUntil is earlier than
\* the save time is cleared, and the clearing is the first step of the
\* pre-save hook, before the nextTrigger recomputation.
C18_SnoozeClearedFirst ==
    hook.pc = "done"
    => /\ SnoozeHandled
       /\ hook.log = <<"clearSnooze", "nextTrigger">>

\* C18 (amended): on every save a snooze whose snoozeUntil is earlier than the
\* save time is cleared; the clearing is the last statement of the hook, after
\* the nextTrigger recomputation, and the saved document is the one save()
\* produces and would be the same with the two statements in the other order.
C18_SnoozeClearedLast ==
    hook.pc = "done"
    => /\ SnoozeHandled
       /\ hook.log = <<"nextTrigger", "clearSnooze">>
       /\ hook.doc = PreSave(hook.input, hook.t)
       /\ hook.doc = PreSaveTrigger(PreSaveSnooze(hook.input, hook.t))

\* C18 happens: a pending recurring reminder snoozed until ten minutes after
\* the start was saved a day later: trigger recomputed, snooze cleared
C18_Witness ==
    /\ hook.pc = "done"
    /\ hook.input.isRecurring /\ Pending(hook.input)
    /\ hook.input.isSnoozed /\ hook.input.snoozeUntil = StartTime + 10
    /\ hook.t = StartTime + MinPerDay
    /\ ~hook.doc.isSnoozed /\ hook.doc.snoozeUntil = Null
    /\ hook.doc.nextTrigger =
          OneStepLater(hook.input.reminderDateTime, hook.input.recurrencePattern)

\* ------------------------------------ claims on findDueForNotification

\* findDueForNotification just ran (its result is of the document as it is)
JustAskedDue == due' # due

\* the four conditions of the description
DueAsDescribed(doc, t) ==
    /\ doc.isActive
    /\ ~doc.isCompleted
    /\ doc.reminderDateTime <= t
    /\ ~doc.isSnoozed \/ (doc.snoozeUntil # Null /\ doc.snoozeUntil <= t)

\* C19 (as stated): findDueForNotification returns exactly the reminders that
\* are active, incomplete, have reminderDateTime <= now and are not snoozed or
\* have snoozeUntil <= now; no further field decides membership.
C19_DueExactlyAsDescribed ==
    [][JustAskedDue
       => \A id \in ReminderIds :
            id \in due'.result <=> DueAsDescribed(rem, now)]_vars

\* C19 (amended): findDueForNotification returns exactly the reminders that
\* are active, incomplete, not yet notified (notificationSent = false), have
\* reminderDateTime <= now and are not snoozed or have snoozeUntil <= now.
C19_DueAndNotYetNotified ==
    [][JustAskedDue
       => /\ due'.result \subseteq ReminderIds
          /\ \A id \in ReminderIds :
               id \in due'.result
                 <=> (DueAsDescribed(rem, now) /\ ~rem.notificationSent)]_vars

\* C19 happens: a reminder that is active, incomplete, past its time and not
\* snoozed, but already notified, was asked for and not returned
C19_Witness ==
    /\ due.asked /\ due.at = now /\ due.result = {}
    /\ remState = "saved"
    /\ DueAsDescribed(rem, now)
    /\ rem.notificationSent

\* ------------------------------------------------ claims on the uploads

\* some file of the request has a type outside the global allow-list
HasForeignType ==
    \E i \in 1..Len(up.sent) : up.sent[i].mimetype \notin AllowedTypes

\* every file of the request is an image/png within the size limit
AllSmallPng ==
    \A i \in 1..Len(up.sent) :
        up.sent[i].mimetype = "image/png" /\ up.sent[i].size <= FileSizeLimit

\* C20: a file whose MIME type is outside the global allow-list is rejected
\* on every endpoint (generic, image, audio, document); an image/png file
\* passes the global filter and the image-only validator; and the filename
\* generated for an accepted file differs from its original name.
C20_UploadGatekeeper ==
    /\ (up.pc # "idle" /\ HasForeignType)
         => up.pc = "rejected" /\ up.status = "400" /\ up.files = <<>>
    /\ FileFilterAccepts("image/png")
    /\ (up.pc # "idle" /\ AllSmallPng /\ up.endpoint \in {"generic", "image"})
         => up.pc # "rejected" /\ up.files = up.sent
    /\ up.pc = "named"
         => /\ Len(up.uniqueFilename) = Len(up.files)
            /\ \A i \in 1..Len(up.files) :
                  up.uniqueFilename[i] # up.files[i].originalname

\* C20 happens: two image/png files went through the image-only route and
\* got their names, a.p becoming a_17_k3.p
C20_Witness ==
    /\ up.pc = "named"
    /\ up.endpoint = "image"
    /\ Len(up.files) = 2
    /\ AllSmallPng
    /\ up.files[1].originalname = <<"a", ".", "p">>
    /\ up.uniqueFilename[1] = <<"a", "_", "1", "7", "_", "k", "3", ".", "p">>
    /\ up.files[2].originalname = <<".", "e">>
    /\ up.uniqueFilename[2] = <<".", "e", "_", "1", "7", "_">>


\* ------------------------------------------------------------------ C21

\* the calendar month after the one t lies in, as [y, m]
MonthAfter(t) ==
    LET c == CivilFromDays(t \div MinPerDay)
    IN  IF c.m = 12 THEN [y |-> c.y + 1, m |-> 1] ELSE [y |-> c.y, m |-> c.m + 1]

\* the month after t's has no day with t's day of month
AnchorMissing(t) ==
    getDate(t) > DaysInMonth(MonthAfter(t).y, MonthAfter(t).m)

\* t's day of month counted on past the end of the month after t's, at
\* t's time of day
RolledOver(t) ==
    LET target == MonthAfter(t)
        dim    == DaysInMonth(target.y, target.m)
        y3     == IF target.m = 12 THEN target.y + 1 ELSE target.y
        m3     == IF target.m = 12 THEN 1 ELSE target.m + 1
    IN  DaysFromCivil(y3, m3, getDate(t) - dim) * MinPerDay + (t % MinPerDay)

MonthlyByOne(doc) ==
    /\ doc.isRecurring
    /\ doc.recurrencePattern.type = "monthly"
    /\ doc.recurrencePattern.interval = 1

\* C21: for a monthly reminder with interval 1 whose day of month does not
\* exist in the following month, calculateNextTrigger yields a date, and
\* always by the same policy: the missing days are counted on into the
\* month after (January 31 gives March 2 or 3), at the same time of day.
C21_MonthlyOverflowRollsOver ==
    (calc.called /\ MonthlyByOne(calc.before)
        /\ AnchorMissing(calc.before.reminderDateTime)) =>
        /\ calc.after.nextTrigger = RolledOver(calc.before.reminderDateTime)
        /\ calc.after.nextTrigger > calc.before.reminderDateTime
        /\ getDate(calc.after.nextTrigger) \in 1..3

C21_Witness ==
    /\ calc.called
    /\ MonthlyByOne(calc.before)
    /\ calc.before.reminderDateTime = UTC(2024, 1, 31, 10, 0)
    /\ calc.after.nextTrigger = UTC(2024, 3, 2, 10, 0)


\* ------------------------------------------------------------------ C24

\* C24 as stated: calculateNextTrigger leaves the reminder as it was and
\* returns reminderDateTime moved on by one step of the pattern.
C24_PureAndReturnsNextTrigger ==
    (calc.called /\ calc.before.isRecurring) =>
        /\ calc.after = calc.before
        /\ calc.returned # Undefined
        /\ calc.returned = OneStepLater(calc.before.reminderDateTime,
                                        calc.before.recurrencePattern)

\* C24, amended: calculateNextTrigger returns nothing and writes nextTrigger
\* on the reminder, changing no other field; the value written depends on
\* isRecurring, reminderDateTime and the pattern only: reminderDateTime
\* itself when not recurring, else + interval days (daily), + 7 * interval
\* days (weekly), + interval calendar months (monthly), + interval calendar
\* years (yearly), + exactly one day for any other type.
C24_WritesNextTriggerOnly ==
    calc.called =>
        /\ calc.returned = Undefined
        /\ calc.after =
             [calc.before EXCEPT !.nextTrigger =
                IF calc.before.isRecurring
                THEN OneStepLater(calc.before.reminderDateTime,
                                  calc.before.recurrencePattern)
                ELSE calc.before.reminderDateTime]

C24_Witness ==
    /\ calc.called
    /\ calc.before.isRecurring
    /\ calc.before.recurrencePattern.type = "custom"
    /\ calc.before.recurrencePattern.interval = 3
    /\ calc.before.nextTrigger = Null
    /\ calc.after.nextTrigger = calc.before.reminderDateTime + MinPerDay
    /\ calc.returned = Undefined


\* ------------------------------------------------------------------ C22

DismissStep ==
    /\ remState = "saved"
    /\ rem' = dismiss(rem, now)

\* the history after the step is the history before it plus one record
OneRecordAppended ==
    /\ Len(rem'.occurrences) = Len(rem.occurrences) + 1
    /\ SubSeq(rem'.occurrences, 1, Len(rem.occurrences)) = rem.occurrences

\* what scheduleNextOccurrence does to a recurring reminder at this step
ScheduledNext ==
    IF EndConditionMet(rem, now)
    THEN /\ ~rem'.isActive
         /\ rem'.reminderDateTime = rem.reminderDateTime
         /\ rem'.isCompleted = rem.isCompleted
    ELSE /\ rem'.reminderDateTime =
               OneStepLater(rem.reminderDateTime, rem.recurrencePattern)
         /\ ~rem'.isCompleted
         /\ ~rem'.notificationSent
         /\ rem'.isActive = rem.isActive

DismissOfRecurring ==
    /\ OneRecordAppended
    /\ rem'.occurrences[Len(rem'.occurrences)].wasSkipped
    /\ rem'.occurrences[Len(rem'.occurrences)].scheduledFor = rem.reminderDateTime
    /\ ScheduledNext

DismissOfPlain ==
    /\ ~rem'.isActive
    /\ rem'.occurrences = rem.occurrences
    /\ rem'.reminderDateTime = rem.reminderDateTime
    /\ rem'.isCompleted = rem.isCompleted

SnoozeExpired(doc, t) ==
    doc.isSnoozed /\ doc.snoozeUntil # Null /\ t > doc.snoozeUntil

\* C22 as stated: dismiss on a recurring reminder appends exactly one record
\* with wasSkipped = true and scheduledFor = the current reminderDateTime and
\* runs scheduleNextOccurrence; on a non-recurring reminder it sets isActive
\* to false, appends nothing and leaves reminderDateTime, isCompleted and the
\* snooze fields unchanged.
C22_DismissFrame ==
    [][ DismissStep
        => IF rem.isRecurring
           THEN DismissOfRecurring
           ELSE /\ DismissOfPlain
                /\ rem'.isSnoozed = rem.isSnoozed
                /\ rem'.snoozeUntil = rem.snoozeUntil
      ]_vars

\* C22, amended: as stated, except that on a non-recurring reminder the
\* snooze fields are left unchanged only while the snooze has not run out;
\* a snooze that has run out is cleared by the save that ends dismiss.
C22_DismissFrameExpiredSnoozeCleared ==
    [][ DismissStep
        => IF rem.isRecurring
           THEN DismissOfRecurring
           ELSE /\ DismissOfPlain
                /\ IF SnoozeExpired(rem, now)
                   THEN ~rem'.isSnoozed /\ rem'.snoozeUntil = Null
                   ELSE /\ rem'.isSnoozed = rem.isSnoozed
                        /\ rem'.snoozeUntil = rem.snoozeUntil
      ]_vars

\* C22 happens: a non-recurring reminder was dismissed while its snooze was
\* still running
C22_Witness ==
    /\ remState = "saved"
    /\ ~rem.isRecurring
    /\ ~rem.isActive
    /\ rem.occurrences = <<>>
    /\ rem.isSnoozed
    /\ rem.snoozeUntil > now


\* ------------------------------------------------------------------ C23

NoDuplicates(seq) ==
    \A i, j \in 1..Len(seq) : seq[i] = seq[j] => i = j

\* C23: addTag of a tag already present leaves the tag list unchanged and
\* addTag(t) applied twice equals addTag(t) applied once; removeTag of an
\* absent tag leaves the tag list unchanged; after any sequence of addTag
\* and removeTag the tag list holds no duplicates; updatePriority with a
\* value outside the enum throws and leaves every field unchanged.
C23_TagAndPriorityMutators ==
    remState = "saved" =>
        /\ \A tag \in RawTags :
              /\ includes(rem.tags, tag) => addTag(rem, tag, now).tags = rem.tags
              /\ addTag(addTag(rem, tag, now), tag, now).tags
                    = addTag(rem, tag, now).tags
              /\ ~includes(rem.tags, tag) => removeTag(rem, tag, now).tags = rem.tags
        /\ NoDuplicates(rem.tags)
        /\ \A p \in PriorityChoices \ Priorities :
              updatePriorityThrows(p) /\ updatePriority(rem, p, now) = rem


\* ------------------------------------------------------------------ C25

\* how many of the first n calls of log were passed on at a time in (from, to]
PassedIn(log, n, from, to) ==
    Cardinality({j \in 1..n : /\ log[j].status = "next"
                              /\ log[j].at > from
                              /\ log[j].at <= to})

\* C25: whatever the order in which the requests of the users are handled,
\* for every user and every span of windowMs (ending at one of the user's
\* calls) at most max of the user's requests were passed on, and the outcome
\* of each call follows from the same user's earlier calls alone: it is 429
\* exactly when max of them were passed on within the window before it.
C25_PerUserLimitIndependent ==
    rlConfig.made =>
      \A user \in UserIds :
        LET log == CallsOf(user)
            W   == rlConfig.windowMs
        IN  \A i \in 1..Len(log) :
              /\ PassedIn(log, i, log[i].at - W, log[i].at) <= rlConfig.max
              /\ log[i].status = "429"
                    <=> PassedIn(log, i - 1, log[i].at - W, log[i].at)
                            >= rlConfig.max

\* C25 happens: the calls of two users alternate; idA is limited at its
\* second call while idB, handled in between, is passed on
C25_Witness ==
    /\ rlConfig.made /\ rlConfig.max = 1
    /\ Len(rlLog) >= 4
    /\ rlLog[1].user = "idA" /\ rlLog[1].status = "next"
    /\ rlLog[2].user = "idB" /\ rlLog[2].status = "next"
    /\ rlLog[3].user = "idA" /\ rlLog[3].status = "429"
    /\ rlLog[4].user = "idB" /\ rlLog[4].status = "429"


\* ------------------------------------------------------------------ C26

\* a step that is one call of the rate-limit middleware
RateLimitStep == Len(rlLog') = Len(rlLog) + 1

NonDecreasing(seq) ==
    \A i, j \in 1..Len(seq) : i <= j => seq[i] <= seq[j]

\* C26: a call answered 429 leaves the whole table unchanged; an
\* unauthenticated request is passed on and leaves the table unchanged; a
\* call passed on for a user changes that user's entry only, which then holds
\* exactly the old timestamps newer than now - windowMs followed by now, in
\* non-decreasing order.
C26_RateLimitFrame ==
    [][ RateLimitStep =>
          LET call == rlLog'[Len(rlLog')]
              old  == IF call.user \in DOMAIN userRequests
                      THEN userRequests[call.user] ELSE <<>>
          IN  /\ call.status = "429" => userRequests' = userRequests
              /\ call.user = NoUser =>
                    call.status = "next" /\ userRequests' = userRequests
              /\ (call.status = "next" /\ call.user # NoUser) =>
                    /\ DOMAIN userRequests' = DOMAIN userRequests \cup {call.user}
                    /\ \A k \in DOMAIN userRequests \ {call.user} :
                          userRequests'[k] = userRequests[k]
                    /\ userRequests'[call.user] =
                          SelectSeq(old, LAMBDA time :
                                      time > rlNow - rlConfig.windowMs)
                             \o <<rlNow>>
                    /\ NonDecreasing(userRequests'[call.user])
      ]_vars

\* C26 happens: with max = 1, idA was passed on at 0, refused half a second
\* later and passed on again a full window after the first call, when the
\* entry was pruned to the new timestamp alone
C26_Witness ==
    /\ rlConfig.made /\ rlConfig.max = 1 /\ rlConfig.windowMs = 1000
    /\ LET log == CallsOf("idA")
       IN  /\ Len(log) = 3
           /\ log[1].status = "next" /\ log[1].at = 0
           /\ log[2].status = "429" /\ log[2].at = 500
           /\ log[3].status = "next" /\ log[3].at = 1000
    /\ "idA" \in DOMAIN userRequests
    /\ userRequests["idA"] = <<1000>>


\* ------------------------------------------------------------------ C27

\* the times of the calls before the i-th of log that were passed on within
\* the window of the i-th
CountedBefore(log, i) ==
    {log[j].at : j \in {k \in 1..(i - 1) :
                          /\ log[k].status = "next"
                          /\ log[k].at > log[i].at - rlConfig.windowMs}}

Oldest(times) == CHOOSE t \in times : \A u \in times : t <= u

\* the retryAfter of the i-th call of log is as described
RetryAfterAsDescribed(log, i) ==
    /\ log[i].retryAfter # NaN
    /\ CountedBefore(log, i) # {}
    /\ log[i].retryAfter =
          CeilDiv1000(Oldest(CountedBefore(log, i))
                        + rlConfig.windowMs - log[i].at)
    /\ log[i].retryAfter >= 0
    /\ log[i].retryAfter <= CeilDiv1000(rlConfig.windowMs)

\* C27: for every call answered 429, whatever window and max were
\* configured, retryAfter is a defined whole number of seconds, equal to the
\* ceiling of (oldest counted timestamp + windowMs - now) / 1000, at least 0
\* and at most ceil(windowMs / 1000).
C27_RetryAfterDefined ==
    rlConfig.made =>
      \A user \in UserIds :
        \A i \in 1..Len(CallsOf(user)) :
          CallsOf(user)[i].status = "429" =>
              RetryAfterAsDescribed(CallsOf(user), i)


\* ------------------------------------------------------------------ C28

\* Attached: the user record and the verified claims are on the request, no
\* response was sent and the next stage was called
AttachedState(q) ==
    /\ q.reqUser # NoUserDoc
    /\ q.reqUser.firebaseUid = q.token.identity.uid
    /\ q.firebaseUser = q.token.identity
    /\ q.status = "none"

\* Rejected: a 401 was sent, nothing is on the request and no later stage ran
RejectedState(q) ==
    /\ q.status = "401"
    /\ q.reqUser = NoUserDoc
    /\ q.firebaseUser = NoIdentity
    /\ q.gate = "none"

AuthOutcomes ==
    \A r \in Requests :
        /\ reqs[r].pc = "attached" => AttachedState(reqs[r])
        /\ reqs[r].pc = "rejected" => RejectedState(reqs[r])
        /\ reqs[r].failure # "none" => reqs[r].pc = "rejected"
        /\ reqs[r].gate # "none" => reqs[r].pc = "attached"

\* a request that reached Attached or Rejected stays there, with what is (not)
\* attached and the status sent
AuthOutcomeFinal ==
    \A r \in Requests :
        AuthDone(r) =>
            /\ reqs'[r].pc = reqs[r].pc
            /\ reqs'[r].status = reqs[r].status
            /\ reqs'[r].reqUser = reqs[r].reqUser
            /\ reqs'[r].firebaseUser = reqs[r].firebaseUser

\* C28: every attempt ends in exactly one of Attached and Rejected. In
\* Attached the user record and the verified claims are on the request and
\* the next stage is called; in Rejected the status is 401, no later stage
\* runs and neither user nor claims are attached; a failure of the user
\* directory (lookup, create, last-login update) ends in Rejected with 401.
C28_EndsAttachedOrRejected ==
    /\ []AuthOutcomes
    /\ [][AuthOutcomeFinal]_vars
    /\ \A r \in Requests : (reqs[r].pc # "idle") ~> AuthDone(r)

\* C28 happens: one request is attached, the other was rejected because the
\* save of the last login failed after the user was found
C28_Witness ==
    /\ reqs["r1"].pc = "attached"
    /\ reqs["r1"].reqUser # NoUserDoc
    /\ reqs["r2"].pc = "rejected"
    /\ reqs["r2"].failure = "directory"
    /\ reqs["r2"].found
    /\ reqs["r2"].status = "401"


\* ------------------------------------------------------------------ C29

\* the end condition of the recurrence holds for the reminder as it is
EndReached(doc, t) ==
    \/ doc.recurrencePattern.endDate # Null /\ t > doc.recurrencePattern.endDate
    \/ /\ doc.recurrencePattern.occurrenceCount # Null
       /\ Len(doc.occurrences) >= doc.recurrencePattern.occurrenceCount

\* C29: once isActive is false no method (markCompleted, snooze, dismiss,
\* updatePriority, addTag, removeTag, each with its save) sets it back to
\* true, and none moves reminderDateTime of an inactive recurring reminder
\* whose end condition is met.
C29_InactiveStaysInactive ==
    [][ remState = "saved" =>
          /\ ~rem.isActive => ~rem'.isActive
          /\ (~rem.isActive /\ rem.isRecurring /\ EndReached(rem, now))
                => rem'.reminderDateTime = rem.reminderDateTime
      ]_vars

\* C29 happens: a recurring reminder with occurrenceCount = 1 went inactive
\* at its first completion and was then dismissed: a second record for the
\* same date, still inactive, date not moved
C29_Witness ==
    /\ remState = "saved" /\ rem.isRecurring
    /\ rem.recurrencePattern.occurrenceCount = 1
    /\ rem.recurrencePattern.endDate = Null
    /\ Len(rem.occurrences) = 2
    /\ ~rem.occurrences[1].wasSkipped
    /\ rem.occurrences[2].wasSkipped
    /\ rem.occurrences[2].scheduledFor = rem.occurrences[1].scheduledFor
    /\ rem.reminderDateTime = rem.occurrences[1].scheduledFor
    /\ ~rem.isActive


\* ------------------------------------------------------------------ C30

ScheduledForNonDecreasing(occ) ==
    \A i, j \in 1..Len(occ) : i <= j => occ[i].scheduledFor <= occ[j].scheduledFor

\* C30: for a recurring reminder (interval >= 1) reminderDateTime never
\* decreases: markCompleted and dismiss leave it unchanged or move it
\* strictly later, and no other method moves it; the occurrence history is
\* append-only, grows by exactly one record at each markCompleted or dismiss
\* and at no other step, with scheduledFor in non-decreasing order; the
\* history of a non-recurring reminder never changes.
C30_DateAndHistoryMonotonic ==
    [][ remState = "saved" =>
          IF rem.isRecurring
          THEN /\ rem.recurrencePattern.interval >= 1
               /\ rem'.reminderDateTime >= rem.reminderDateTime
               /\ IF RecurringOccurrenceStep
                  THEN /\ OneRecordAppended
                       /\ rem'.occurrences[Len(rem'.occurrences)].scheduledFor
                             = rem.reminderDateTime
                  ELSE /\ rem'.occurrences = rem.occurrences
                       /\ rem'.reminderDateTime = rem.reminderDateTime
               /\ ScheduledForNonDecreasing(rem'.occurrences)
          ELSE rem'.occurrences = rem.occurrences
      ]_vars

\* C30 happens: two occurrences of a recurring reminder were recorded, the
\* second scheduled later than the first, and the reminder moved on again
C30_Witness ==
    /\ remState = "saved" /\ rem.isRecurring /\ rem.isActive
    /\ Len(rem.occurrences) = 2
    /\ rem.occurrences[1].scheduledFor < rem.occurrences[2].scheduledFor
    /\ rem.occurrences[2].scheduledFor < rem.reminderDateTime


\* ------------------------------------------------------------------ C31

\* the stage either answered once or called next once
OneOutcome(entry) ==
    \/ entry.responses = 1 /\ entry.nexts = 0
    \/ entry.responses = 0 /\ entry.nexts = 1

\* C31: every stage of the chain, for every request and every outcome of
\* its external calls, either sends exactly one response or calls the next
\* stage exactly once, never both and never neither; so the chain stops at
\* the first stage that rejects, the handler runs only if every stage
\* passed, and the request gets one response.
C31_OneOutcomePerStage ==
    /\ \A i \in 1..Len(pipe.log) :
          /\ OneOutcome(pipe.log[i])
          /\ pipe.log[i].responses = 1 => i = Len(pipe.log)
          /\ pipe.log[i].stage = pipe.chain[i]
    /\ pipe.handler <= 1
    /\ pipe.handler = 1 =>
          /\ Len(pipe.log) = Len(pipe.chain)
          /\ \A i \in 1..Len(pipe.log) : pipe.log[i].nexts = 1
    /\ pipe.responses <= 1
    /\ pipe.pc = "done" => pipe.responses = 1


\* ------------------------------------------------------------------ C32

\* attempts, timers and handlers add up: one timer per failed attempt, one
\* attempt per timer run out, each after RetryDelay seconds; the process
\* exits only through the SIGINT handler; the handlers are registered once,
\* by the attempt that succeeded
BootstrapAccounts ==
    /\ db.pc # "idle" => db.attempts = 1 + Len(db.waited)
    /\ db.scheduled = Len(db.waited) + Len(db.timers)
    /\ Len(db.timers) = (IF db.pc = "waiting" THEN 1 ELSE 0)
    /\ \A i \in 1..Len(db.waited) : db.waited[i] = RetryDelay
    /\ db.exited => db.pc = "connected"
    /\ db.onError = (IF db.pc = "connected" THEN 1 ELSE 0)
    /\ db.onDisconnected = db.onError
    /\ db.onSigint = db.onError

\* after the attempt that succeeded there is no further attempt
ConnectedIsFinal ==
    db.pc = "connected" =>
        /\ db'.pc = "connected"
        /\ db'.attempts = db.attempts
        /\ db'.timers = <<>>

\* C32: every failed attempt of connectDB schedules exactly one new attempt
\* 5 seconds later and never ends the process, so attempts go on until one
\* succeeds: if the database stays reachable from some time on, the process
\* connects; the connection listeners and the SIGINT handler are registered
\* only after a successful attempt and at most once over all attempts.
C32_RetryUntilConnected ==
    /\ []BootstrapAccounts
    /\ [][ConnectedIsFinal]_vars
    /\ (db.pc = "waiting") ~> (db.pc = "connecting")
    /\ (<>[]db.reachable) => <>(db.pc = "connected")

\* C32 happens: two attempts failed, each followed 5 seconds later by the
\* next, the third succeeded and registered each handler once
C32_Witness ==
    /\ db.pc = "connected"
    /\ db.attempts = 3
    /\ db.waited = <<RetryDelay, RetryDelay>>
    /\ db.scheduled = 2
    /\ db.onError = 1 /\ db.onDisconnected = 1 /\ db.onSigint = 1
    /\ ~db.exited

====
